---- MODULE Spec2Model ----
(***************************************************************************)
(* UVM configuration database (uvm/base/uvm_config_db.py).                 *)
(*                                                                         *)
(* Strings of the program (instance paths, field names, lookup keys) are   *)
(* sequences of one-character strings, so that concatenation and glob      *)
(* matching are computed character by character as the program does.       *)
(***************************************************************************)
EXTENDS Integers, Sequences, FiniteSets, TLC

VARIABLES
    pool,           \* UVMResourcePool: every resource, front = highest priority
    m_rsc,          \* UVMConfigDb.m_rsc: cntxt -> (lookup key -> resource id)
    m_waiters,      \* UVMConfigDb.m_waiters: field name -> queue of waiters
    phase,          \* name of top.m_current_phase ("none" when it is None)
    ready,          \* UVMConfigDbOptions.ready
    tracing,        \* UVMConfigDbOptions.tracing
    clp_trace,      \* +UVM_CONFIG_DB_TRACE is on the command line
    bench,          \* the test bench in use: it fixes the calls that are made
    task_pc,        \* position of each task that may call wait_modified
    last_set,       \* history: the arguments of the most recent set
    written,        \* history: key -> value most recently written to it
    build_written,  \* history: keys whose most recent write was in build phase
    call,           \* the most recent get/exists call and what it returned
    wait_log,       \* history: per task, its wait_modified call, the sets made
                    \* since with its arguments (hit) or with a path and
                    \* field that match its waiter (matched), resumptions
    last_turn,      \* history: the most recent of turn_on/turn_off_tracing
    seq             \* the tasks that run the sequence macros

vars == <<pool, m_rsc, m_waiters, phase, ready, tracing, clp_trace, bench,
          task_pc, last_set, written, build_written, call, wait_log,
          last_turn, seq>>

----------------------------------------------------------------------------
\* Bounds of the model.

\* Most resources the pool holds.
MaxPool == 3

\* Values written by set.
Values == {1, 2}

\* A value written by set that is a string; the values of Values are ints.
StrValue == 11

SetValues(b) ==
    IF b = "wait" THEN {1}
    ELSE IF b = "typed" THEN {1, StrValue}
    ELSE Values

\* The type of a value, as type(value) gives it.
TypeOf(v) == IF v = StrValue THEN "str" ELSE "int"

\* The type parameter T a bench passes with value v: the typed bench passes
\* the type of the value, the others leave T at its default (None).
SetType(b, v) == IF b = "typed" THEN TypeOf(v) ELSE "None"

\* The type parameters T a bench passes to get: the typed bench asks for
\* every type and also leaves T at its default, the others leave it.
GetTypes(b) == IF b = "typed" THEN {"None", "int", "str"} ELSE {"None"}

----------------------------------------------------------------------------
\* The component tree (external collaborator): top, top.a, top.a.b.

None == "None"
top == "top"
comp_a == "a"
comp_ab == "ab"

Components == {top, comp_a, comp_ab}

get_full_name(c) ==
    CASE c = top -> <<>>
      [] c = comp_a -> <<"a">>
      [] c = comp_ab -> <<"a", ".", "b">>

get_depth(c) ==
    CASE c = top -> 0
      [] c = comp_a -> 1
      [] c = comp_ab -> 2

\* UVMResourceBase.default_precedence
default_precedence == 1000

\* cs.get_root()
get_root == top

----------------------------------------------------------------------------
\* Pattern matcher (uvm_glob_to_re followed by uvm_re_match): glob pattern
\* against a whole candidate string; "*" is any run of characters, "?" any
\* one character, every other character stands for itself.

RECURSIVE GlobMatch(_, _)
GlobMatch(pat, str) ==
    IF pat = <<>> THEN str = <<>>
    ELSE IF Head(pat) = "*"
         THEN GlobMatch(Tail(pat), str)
              \/ (str # <<>> /\ GlobMatch(pat, Tail(str)))
    ELSE IF Head(pat) = "?"
         THEN str # <<>> /\ GlobMatch(Tail(pat), Tail(str))
    ELSE str # <<>> /\ Head(str) = Head(pat) /\ GlobMatch(Tail(pat), Tail(str))

\* uvm_re_match(uvm_glob_to_re(glob), str) == 0
uvm_re_match_glob(glob, str) == GlobMatch(glob, str)

----------------------------------------------------------------------------
\* Resource pool (UVMResourcePool / UVMResource).
\* A resource is [cntxt, scope, name, val, precedence]; cntxt (the context
\* whose cache created it) together with scope and name is its identity.

ResId(r) == <<r.cntxt, r.scope, r.name>>

\* UVMResource(field_name, inst_name): a fresh resource, not yet in the pool.
NewResource(cntxt, inst_name, field_name) ==
    [cntxt |-> cntxt, scope |-> inst_name, name |-> field_name,
     val |-> 0, precedence |-> default_precedence]

InPool(p, id) == \E k \in 1..Len(p) : ResId(p[k]) = id

PoolIndex(p, id) == CHOOSE k \in 1..Len(p) : ResId(p[k]) = id

RemoveAt(p, k) == SubSeq(p, 1, k - 1) \o SubSeq(p, k + 1, Len(p))

\* Mutant of lookup_regex_names: a pattern matches when it matches some
\* part of the string.
lookup_regex_names_Unanchored(p, inst_name, field_name) ==
    SelectSeq(p, LAMBDA r :
                    /\ GlobMatch(<<"*">> \o r.scope \o <<"*">>, inst_name)
                    /\ GlobMatch(<<"*">> \o r.name \o <<"*">>, field_name))

\* rp.lookup_regex_names(inst_name, field_name): the resources whose scope
\* pattern matches inst_name and whose name pattern matches field_name, in
\* pool order.
lookup_regex_names(p, inst_name, field_name) ==
    SelectSeq(p, LAMBDA r : /\ GlobMatch(r.scope, inst_name)
                            /\ GlobMatch(r.name, field_name))

\* Mutant of get_highest_precedence: the first resource of the type is taken,
\* whatever its precedence.
get_highest_precedence_FrontMost(rq, T) ==
    LET q == SelectSeq(rq, LAMBDA r : T = "None" \/ TypeOf(r.val) = T)
    IN IF q = <<>> THEN <<>> ELSE <<q[1]>>

\* UVMResource.get_highest_precedence(rq, T): of the resources of rq whose
\* value is of type T (of all of them when T is None), the first with the
\* greatest precedence; <<>> stands for None.
get_highest_precedence(rq, T) ==
    LET q == SelectSeq(rq, LAMBDA r : T = "None" \/ TypeOf(r.val) = T)
    IN IF q = <<>> THEN <<>>
       ELSE LET best == CHOOSE k \in 1..Len(q) :
                           /\ \A j \in 1..Len(q) : q[j].precedence <= q[k].precedence
                           /\ \A j \in 1..(k - 1) : q[j].precedence < q[k].precedence
            IN <<q[best]>>

\* r.set_override(): a resource not yet in the pool is put at its head.
set_override(p, r) == <<r>> \o p

\* Mutant of set_priority_name_high: r moves to the back of the pool.
set_priority_name_low(p, r) ==
    LET k == PoolIndex(p, ResId(r)) IN RemoveAt(p, k) \o <<p[k]>>

\* rp.set_priority_name(r, PRI_HIGH): r, already in the pool, moves to the front.
set_priority_name_high(p, r) ==
    LET k == PoolIndex(p, ResId(r)) IN <<p[k]>> \o RemoveAt(p, k)

\* UVMResourceDb.get_by_name(inst_name, field_name, spell_chk): the highest
\* precedence resource matching by name, whatever its type; <<>> for None.
get_by_name(p, inst_name, field_name) ==
    get_highest_precedence(lookup_regex_names(p, inst_name, field_name), "None")

----------------------------------------------------------------------------
\* UVMConfigDbOptions

\* Mutant of OptionsInit: ready is not set, so every call initialises again.
OptionsInit_NotReady(opt) ==
    [ready |-> FALSE, tracing |-> IF clp_trace THEN TRUE ELSE opt.tracing]

\* init(): reads the command line once.
OptionsInit(opt) ==
    [ready |-> TRUE, tracing |-> IF clp_trace THEN TRUE ELSE opt.tracing]

\* is_tracing(): the options after the call; the value returned is .tracing
is_tracing(opt) == IF ~opt.ready THEN OptionsInit(opt) ELSE opt

\* turn_on_tracing(): the options after the call.
turn_on_tracing(opt) ==
    [(IF ~opt.ready THEN OptionsInit(opt) ELSE opt) EXCEPT !.tracing = TRUE]

\* turn_off_tracing(): the options after the call.
turn_off_tracing(opt) ==
    [(IF ~opt.ready THEN OptionsInit(opt) ELSE opt) EXCEPT !.tracing = FALSE]

Options == [ready |-> ready, tracing |-> tracing]

----------------------------------------------------------------------------
\* UVMConfigDb.set

\* cntxt is None -> top
SetCntxt(c) == IF c = None THEN get_root ELSE c

\* The path joined without the "." separator.
SetInstName_NoDot(cntxt, inst_name) ==
    IF inst_name = <<>> THEN get_full_name(cntxt)
    ELSE get_full_name(cntxt) \o inst_name

\* The absolute instance path set stores.
SetInstName(cntxt, inst_name) ==
    IF inst_name = <<>> THEN get_full_name(cntxt)
    ELSE IF get_full_name(cntxt) # <<>>
         THEN get_full_name(cntxt) \o <<".">> \o inst_name
    ELSE inst_name

\* The token put between instance path and field name.
M_UVM_TOKEN == <<"_", "_", "M", "_", "U", "V", "M", "_", "_">>

\* Mutant of LookupKey: the token is left out.
LookupKey_NoToken(inst_name, field_name) == inst_name \o field_name

\* lookup = inst_name + "__M_UVM__" + field_name
LookupKey(inst_name, field_name) == inst_name \o M_UVM_TOKEN \o field_name

\* Mutant of SetPrecedence: the depth of the context is never subtracted.
SetPrecedence_Flat(curr_phase, cntxt) == default_precedence

\* Mutant of SetPrecedence: the depth is subtracted in every phase.
SetPrecedence_AnyPhase(curr_phase, cntxt) ==
    default_precedence - get_depth(cntxt)

\* Mutant of SetPrecedence: in the build phase the depth is added.
SetPrecedence_AddsDepth(curr_phase, cntxt) ==
    IF curr_phase # "none" /\ curr_phase = "build"
    THEN default_precedence + get_depth(cntxt)
    ELSE default_precedence

\* The precedence a set gives the resource it writes.
SetPrecedence(curr_phase, cntxt) ==
    IF curr_phase # "none" /\ curr_phase = "build"
    THEN default_precedence - get_depth(cntxt)
    ELSE default_precedence

\* Mutant of WriteResource: the precedence is left as it was.
WriteResource_KeepPrecedence(r, value, prec) == [r EXCEPT !.val = value]

\* r.precedence = ...; r.write(value, cntxt)
WriteResource(r, value, prec) == [r EXCEPT !.precedence = prec, !.val = value]

\* Mutant of SetReorder: an existing resource is written but not re-prioritised.
SetReorder_NoPriority(p, r, exists) ==
    IF exists
    THEN [p EXCEPT ![PoolIndex(p, ResId(r))] = r]
    ELSE set_override(p, r)

\* Mutant of SetReorder: a new resource is put at the tail of the pool.
SetReorder_NewAtTail(p, r, exists) ==
    IF exists
    THEN set_priority_name_high([p EXCEPT ![PoolIndex(p, ResId(r))] = r], r)
    ELSE p \o <<r>>

\* Mutant of SetReorder: an existing resource is written over the head of the
\* pool, whichever resource that is.
SetReorder_OverwriteHead(p, r, exists) ==
    IF exists
    THEN set_priority_name_high([p EXCEPT ![1] = r], r)
    ELSE set_override(p, r)

\* Mutant of SetReorder: the written resource is put at the head as an
\* override whether or not it was in the pool already.
SetReorder_AlwaysOverride(p, r, exists) ==
    IF exists
    THEN set_override([p EXCEPT ![PoolIndex(p, ResId(r))] = r], r)
    ELSE set_override(p, r)

\* The resource pool after set has written r (the resource as written):
\* an existing resource is re-prioritised, a new one is put at the head.
SetReorder(p, r, exists) ==
    IF exists
    THEN set_priority_name_high([p EXCEPT ![PoolIndex(p, ResId(r))] = r], r)
    ELSE set_override(p, r)

\* Mutant of TriggerWaiters: a waiter is triggered only when its instance
\* string is the path written, character for character.
TriggerWaiters_ExactOnly(q, inst_name) ==
    [k \in 1..Len(q) |->
        IF inst_name = q[k].inst_name
        THEN [q[k] EXCEPT !.trigger = TRUE]
        ELSE q[k]]

\* Mutant of TriggerWaiters: every waiter of the queue is triggered.
TriggerWaiters_All(q, inst_name) ==
    [k \in 1..Len(q) |-> [q[k] EXCEPT !.trigger = TRUE]]

\* The waiter queue q of the written field after set has scanned it.
TriggerWaiters(q, inst_name) ==
    [k \in 1..Len(q) |->
        IF uvm_re_match_glob(inst_name, q[k].inst_name)
        THEN [q[k] EXCEPT !.trigger = TRUE]
        ELSE q[k]]

\* Mutant of SetWaiters: the queue of every field name that the written field
\* name matches as a pattern is scanned.
SetWaiters_GlobBuckets(w, inst_name, field_name) ==
    [f \in DOMAIN w |->
        IF GlobMatch(field_name, f)
        THEN TriggerWaiters(w[f], inst_name)
        ELSE w[f]]

\* Mutant of SetWaiters: no waiter is triggered.
SetWaiters_NoTrigger(w, inst_name, field_name) == w

\* m_waiters after the scan of set(..., field_name, ...) on inst_name.
SetWaiters(w, inst_name, field_name) ==
    IF field_name \in DOMAIN w
    THEN [w EXCEPT ![field_name] = TriggerWaiters(w[field_name], inst_name)]
    ELSE w

\* Mutant of CachePool: the context's cache is created anew by every set.
CachePool_Fresh(c) == <<>>

\* m_rsc[cntxt], the cache of the keys context c has written, empty (and
\* created by set) when the context has none.
CachePool(c) == IF c \in DOMAIN m_rsc THEN m_rsc[c] ELSE <<>>

\* Mutant of Suspends: every operation waits.
Suspends_Always(op) == TRUE

\* Mutant of Suspends: set gives up control between its statements.
Suspends_InSet(op) == op \in {"wait_modified", "set"}

\* Whether operation op can suspend its caller: get, set and exists are plain
\* methods (def, not async def) whose bodies hold no await; wait_modified is
\* a task that waits on its waiter's trigger.
Suspends(op) == op = "wait_modified"

\* UVMResourceDb.m_show_msg(id, ..., rsrc): the trace line it reports for the
\* resource rs (<<>> or <<r>>); it reads the resource and changes nothing.
m_show_msg(id, rs) == [id |-> id, found |-> rs # <<>>]

\* if UVMConfigDbOptions.is_tracing(): m_show_msg("CFGDB/SET", ..., r), the
\* last statement of set: the pool it leaves and the lines it emits.
SetTrace(trc, p, r) ==
    [pool |-> p,
     msg |-> IF trc THEN <<m_show_msg("CFGDB/SET", <<r>>)>> ELSE <<>>]

\* What set(c, i, field_name, value) does in the current state when
\* is_tracing() returns trc: whether the key was cached, the type of the value
\* its resource held, the cache and the registry afterwards, and what the
\* trace statement leaves: the pool and the trace lines emitted.
SetOf(trc, c, i, field_name, value) ==
    LET cntxt == SetCntxt(c)
        inst_name == SetInstName(cntxt, i)
        cpool == CachePool(cntxt)
        lookup == LookupKey(inst_name, field_name)
        exists == lookup \in DOMAIN cpool
        r0 == IF exists
              THEN pool[PoolIndex(pool, <<cntxt>> \o cpool[lookup])]
              ELSE NewResource(cntxt, inst_name, field_name)
        r == WriteResource(r0, value, SetPrecedence(phase, cntxt))
    IN [exists |-> exists,
        held |-> IF exists THEN TypeOf(r0.val) ELSE "None",
        m_rsc |-> IF exists THEN m_rsc
                  ELSE (cntxt :> ((lookup :> <<inst_name, field_name>>) @@ cpool))
                       @@ m_rsc,
        traced |-> SetTrace(trc, SetReorder(pool, r, exists), r),
        m_waiters |-> SetWaiters(m_waiters, inst_name, field_name)]

\* set(cntxt, inst_name, field_name, value, T): T is not used by the body.
Set(c, i, field_name, value, T) ==
    LET cntxt == SetCntxt(c)
        inst_name == SetInstName(cntxt, i)
        opt == is_tracing(Options)
    IN \E o \in {SetOf(opt.tracing, c, i, field_name, value)} :
       /\ o.exists \/ Len(pool) < MaxPool
       /\ ~Suspends("set")
       /\ m_rsc' = o.m_rsc
       /\ pool' = o.traced.pool
       /\ m_waiters' = o.m_waiters
       /\ ready' = opt.ready
       /\ tracing' = opt.tracing
       /\ last_set' = [cntxt |-> c, inst_name |-> i, field_name |-> field_name,
                       value |-> value, build |-> (phase = "build"),
                       exists |-> o.exists, T |-> T, held |-> o.held,
                       msg |-> o.traced.msg]
       /\ written' = (<<cntxt, inst_name, field_name>> :> value) @@ written
       /\ build_written' =
            IF phase = "build"
            THEN build_written \cup {<<cntxt, inst_name, field_name>>}
            ELSE build_written \ {<<cntxt, inst_name, field_name>>}
       /\ call' = [op |-> "none"]
       /\ wait_log' = [t \in DOMAIN wait_log |->
             IF task_pc[t].at = "waiting"
             THEN [wait_log[t] EXCEPT
                     !.hit = @ \/ wait_log[t].args = <<cntxt, i, field_name>>,
                     !.matched = @ \/ (/\ wait_log[t].args[3] = field_name
                                       /\ GlobMatch(inst_name,
                                                    wait_log[t].inst_name))]
             ELSE wait_log[t]]
       /\ UNCHANGED <<phase, clp_trace, bench, last_turn, seq, task_pc>>

----------------------------------------------------------------------------
\* UVMConfigDb.get

GetCntxt(c) == IF c = None THEN get_root ELSE c

\* Mutant of GetInstName: the context's path is not prepended.
GetInstName_Relative(cntxt, inst_name) == inst_name

\* The absolute instance path get searches.
GetInstName(cntxt, inst_name) ==
    IF inst_name = <<>> THEN get_full_name(cntxt)
    ELSE IF get_full_name(cntxt) # <<>>
         THEN get_full_name(cntxt) \o <<".">> \o inst_name
    ELSE inst_name

\* Mutant of GetResource: the lookup is by field name alone.
GetResource_AnyInst(p, inst_name, field_name, T) ==
    get_highest_precedence(
        SelectSeq(p, LAMBDA r : GlobMatch(r.name, field_name)), T)

\* rq = rp.lookup_regex_names(inst_name, field_name); r = highest precedence
GetResource(p, inst_name, field_name, T) ==
    get_highest_precedence(lookup_regex_names(p, inst_name, field_name), T)

\* The caller's output argument: has_append says whether it is list-like.
List(items) == [has_append |-> TRUE, items |-> items]
NoList == [has_append |-> FALSE, items |-> <<>>]

\* Mutant of GetResult: the output argument is checked before the miss.
GetResult_CheckAppendFirst(rs, value) ==
    IF ~value.has_append
    THEN [ret |-> 0, raised |-> TRUE, value |-> value]
    ELSE IF rs = <<>>
         THEN [ret |-> 0, raised |-> FALSE, value |-> value]
    ELSE [ret |-> 1, raised |-> FALSE,
          value |-> [value EXCEPT !.items = Append(@, rs[1].val)]]

\* Mutant of GetResult: an output argument that cannot append is passed over
\* in silence.
GetResult_SilentWithoutAppend(rs, value) ==
    IF rs = <<>>
    THEN [ret |-> 0, raised |-> FALSE, value |-> value]
    ELSE IF value.has_append
         THEN [ret |-> 1, raised |-> FALSE,
               value |-> [value EXCEPT !.items = Append(@, rs[1].val)]]
    ELSE [ret |-> 1, raised |-> FALSE, value |-> value]

\* What get does with the resource found (rs is <<>> or <<r>>): the value
\* returned, whether the exception is raised, the output argument afterwards.
GetResult(rs, value) ==
    IF rs = <<>>
    THEN [ret |-> 0, raised |-> FALSE, value |-> value]
    ELSE IF value.has_append
         THEN [ret |-> 1, raised |-> FALSE,
               value |-> [value EXCEPT !.items = Append(@, rs[1].val)]]
    ELSE [ret |-> 0, raised |-> TRUE, value |-> value]

\* Mutant of GetTrace: the traced branch loses the resource found.
GetTrace_LosesResource(trc, rs) ==
    [rs |-> IF trc THEN <<>> ELSE rs,
     msg |-> IF trc THEN <<m_show_msg("CFGDB/GET", rs)>> ELSE <<>>]

\* if UVMConfigDbOptions.is_tracing(): m_show_msg("CFGDB/GET", ..., r), made
\* between the lookup and the test of r: the resource get goes on with and the
\* lines emitted.
GetTrace(trc, rs) ==
    [rs |-> rs,
     msg |-> IF trc THEN <<m_show_msg("CFGDB/GET", rs)>> ELSE <<>>]

\* get(c, i, field_name, value, T) on pool p when is_tracing() returns trc:
\* the value returned, whether it raised, the output argument afterwards and
\* the trace lines emitted.
GetTraced(trc, p, c, i, field_name, value, T) ==
    LET cntxt == GetCntxt(c)
        t == GetTrace(trc, GetResource(p, GetInstName(cntxt, i), field_name, T))
        res == GetResult(t.rs, value)
    IN [ret |-> res.ret, raised |-> res.raised, value |-> res.value,
        msg |-> t.msg]

\* get(c, i, field_name, value, T) on pool p, as a function of its
\* arguments, under the tracing option as it stands.
GetOfType(p, c, i, field_name, value, T) ==
    LET o == GetTraced(is_tracing(Options).tracing, p, c, i, field_name, value, T)
    IN [ret |-> o.ret, raised |-> o.raised, value |-> o.value]

\* get(c, i, field_name, value) with T left at its default, None.
GetOf(p, c, i, field_name, value) ==
    GetOfType(p, c, i, field_name, value, "None")

Get(c, i, field_name, value, T) ==
    LET opt == is_tracing(Options)
        res == GetTraced(opt.tracing, pool, c, i, field_name, value, T)
    IN /\ ~Suspends("get")
       /\ call' = [op |-> "get", cntxt |-> c, inst_name |-> i,
                   field_name |-> field_name, T |-> T, before |-> value,
                   ret |-> res.ret, raised |-> res.raised, after |-> res.value,
                   msg |-> res.msg]
       /\ ready' = opt.ready
       /\ tracing' = opt.tracing
       /\ UNCHANGED <<pool, m_rsc, m_waiters, phase, clp_trace, bench,
                      last_turn, seq, task_pc, last_set, written,
                      build_written, wait_log>>

----------------------------------------------------------------------------
\* UVMConfigDb.exists

ExistsCntxt(c) == IF c = None THEN get_root ELSE c

\* Mutant of ExistsInstName: the context's path is not prepended.
ExistsInstName_Relative(cntxt, inst_name) == inst_name

\* The absolute instance path exists searches.
ExistsInstName(cntxt, inst_name) ==
    IF inst_name = <<>> THEN get_full_name(cntxt)
    ELSE IF get_full_name(cntxt) # <<>>
         THEN get_full_name(cntxt) \o <<".">> \o inst_name
    ELSE inst_name

\* exists(c, i, field_name) on pool p: 1 for True, 0 for False.
ExistsOf(p, c, i, field_name) ==
    LET cntxt == ExistsCntxt(c)
    IN IF get_by_name(p, ExistsInstName(cntxt, i), field_name) # <<>>
       THEN 1 ELSE 0

\* Mutant of ExistsPool: the resource found is moved to the front of the
\* pool, as set moves the resource it writes.
ExistsPool_Prioritises(p, c, i, field_name) ==
    LET rs == get_by_name(p, ExistsInstName(ExistsCntxt(c), i), field_name)
    IN IF rs = <<>> THEN p ELSE set_priority_name_high(p, rs[1])

\* The pool after exists(c, i, field_name): the lookup by name reads no
\* value and re-prioritises nothing, and exists assigns nothing.
ExistsPool(p, c, i, field_name) == p

Exists(c, i, field_name) ==
    /\ ~Suspends("exists")
    /\ call' = [op |-> "exists", cntxt |-> c, inst_name |-> i,
                field_name |-> field_name, before |-> NoList,
                ret |-> ExistsOf(pool, c, i, field_name), raised |-> FALSE,
                after |-> NoList]
    /\ pool' = ExistsPool(pool, c, i, field_name)
    /\ UNCHANGED <<m_rsc, m_waiters, phase, ready, tracing, clp_trace,
                   bench, last_turn, seq, task_pc, last_set, written, build_written, wait_log>>

----------------------------------------------------------------------------
\* UVMConfigDbOptions, called by the benches that trace.

TraceBenches == {"trace"}

TurnOnTracing ==
    /\ bench \in TraceBenches
    /\ ready' = turn_on_tracing(Options).ready
    /\ tracing' = turn_on_tracing(Options).tracing
    /\ last_turn' = "on"
    /\ call' = [op |-> "none"]
    /\ UNCHANGED <<pool, m_rsc, m_waiters, phase, clp_trace, bench, seq,
                   task_pc, last_set, written, build_written, wait_log>>

TurnOffTracing ==
    /\ bench \in TraceBenches
    /\ ready' = turn_off_tracing(Options).ready
    /\ tracing' = turn_off_tracing(Options).tracing
    /\ last_turn' = "off"
    /\ call' = [op |-> "none"]
    /\ UNCHANGED <<pool, m_rsc, m_waiters, phase, clp_trace, bench, seq,
                   task_pc, last_set, written, build_written, wait_log>>

IsTracing ==
    /\ bench \in TraceBenches
    /\ ready' = is_tracing(Options).ready
    /\ tracing' = is_tracing(Options).tracing
    /\ call' = [op |-> "is_tracing", ret |-> is_tracing(Options).tracing]
    /\ UNCHANGED <<pool, m_rsc, m_waiters, phase, clp_trace, bench, last_turn,
                   seq, task_pc, last_set, written, build_written, wait_log>>

----------------------------------------------------------------------------
\* The phase of top (the phase scheduler is an external collaborator):
\* no current phase, then build, then the phases after build. Only a bench
\* that calls run_test has phases; a unit test runs with no current phase.

PhasedBenches == {"hier", "typed", "steps"}

AdvancePhase ==
    /\ bench \in PhasedBenches
    /\ phase \in {"none", "build"}
    /\ phase' = IF phase = "none" THEN "build" ELSE "run"
    /\ call' = [op |-> "none"]
    /\ UNCHANGED <<pool, m_rsc, m_waiters, ready, tracing, clp_trace, bench, last_turn, seq,
                   task_pc, last_set, written, build_written, wait_log>>

----------------------------------------------------------------------------
\* UVMConfigDb.wait_modified (the reference task kept in the source as a
\* comment): register a waiter, wait on its trigger, remove the waiter.

WaitCntxt(c) == IF c = None THEN get_root ELSE c

\* The instance path a waiter is registered with.
WaitInstName(cntxt, inst_name) ==
    IF cntxt # get_root
    THEN IF inst_name # <<>>
         THEN get_full_name(cntxt) \o <<".">> \o inst_name
         ELSE get_full_name(cntxt)
    ELSE inst_name

\* m_uvm_waiter(inst_name, field_name); the task that owns it is its identity.
NewWaiter(t, inst_name, field_name) ==
    [task |-> t, inst_name |-> inst_name, field_name |-> field_name,
     trigger |-> FALSE]

\* m_waiters[field_name].push_back(waiter), the queue created when missing.
PushWaiter(w, field_name, waiter) ==
    IF field_name \in DOMAIN w
    THEN [w EXCEPT ![field_name] = Append(@, waiter)]
    ELSE (field_name :> <<waiter>>) @@ w

\* The queue without the first element that is task t's waiter.
DeleteWaiter(q, t) ==
    IF \E k \in 1..Len(q) : q[k].task = t
    THEN RemoveAt(q, CHOOSE k \in 1..Len(q) :
                        /\ q[k].task = t
                        /\ \A j \in 1..(k - 1) : q[j].task # t)
    ELSE q

\* Number of waiters in the registry.
RECURSIVE SumLen(_, _)
SumLen(w, keys) ==
    IF keys = {} THEN 0
    ELSE LET k == CHOOSE x \in keys : TRUE
         IN Len(w[k]) + SumLen(w, keys \ {k})

RegistrySize == SumLen(m_waiters, DOMAIN m_waiters)

\* wait_modified up to its wait on the trigger.
WaitModified(t, c, i, field_name) ==
    LET cntxt == WaitCntxt(c)
        inst_name == WaitInstName(cntxt, i)
    IN /\ task_pc[t].at = "idle"
       /\ m_waiters' = PushWaiter(m_waiters, field_name,
                                  NewWaiter(t, inst_name, field_name))
       /\ task_pc' = [task_pc EXCEPT ![t] =
                         [at |-> "waiting", field_name |-> field_name]]
       /\ wait_log' = [wait_log EXCEPT ![t] =
                         [args |-> <<cntxt, i, field_name>>,
                          inst_name |-> inst_name, hit |-> FALSE,
                          matched |-> FALSE, resumed |-> 0]]
       /\ call' = [op |-> "none"]
       /\ UNCHANGED <<pool, m_rsc, phase, ready, tracing, clp_trace, bench, last_turn, seq,
                      last_set, written, build_written>>

\* wait_modified from the trigger on: the waiter is removed and the task returns.
WaitResume(t) ==
    LET field_name == task_pc[t].field_name
        q == m_waiters[field_name]
    IN /\ task_pc[t].at = "waiting"
       /\ \E k \in 1..Len(q) : q[k].task = t /\ q[k].trigger
       /\ m_waiters' = [m_waiters EXCEPT ![field_name] = DeleteWaiter(q, t)]
       /\ task_pc' = [task_pc EXCEPT ![t] = [at |-> "idle", field_name |-> <<>>]]
       /\ wait_log' = [wait_log EXCEPT ![t].resumed = @ + 1, ![t].args = <<>>]
       /\ call' = [op |-> "none"]
       /\ UNCHANGED <<pool, m_rsc, phase, ready, tracing, clp_trace, bench, last_turn, seq,
                      last_set, written, build_written>>

\* The task waiting in wait_modified is killed. It stops at its wait on the
\* trigger: the statements after the wait, which remove the waiter, never run,
\* and the reference has no handler that runs when the task is killed.
Cancel(t) ==
    /\ task_pc[t].at = "waiting"
    /\ task_pc' = [task_pc EXCEPT ![t] = [at |-> "cancelled", field_name |-> <<>>]]
    /\ call' = [op |-> "none"]
    /\ UNCHANGED <<pool, m_rsc, m_waiters, phase, ready, tracing, clp_trace,
                   bench, last_turn, seq, last_set, written, build_written, wait_log>>

----------------------------------------------------------------------------
\* The test benches: the calls each makes, as <<cntxt, inst_name, field_name>>.

s_a == <<"a">>
s_b == <<"b">>
s_ab == <<"a", "b">>
s_a_b == <<"a", ".", "b">>
s_a_star == <<"a", ".", "*">>
s_star == <<"*">>
s_f == <<"f">>
s_g == <<"g">>
s_h == <<"h">>
s_bf == <<"b", "f">>

Benches == {"hier", "glob", "alias", "wait", "typed", "trace"}

SetArgs(b) ==
    CASE b = "hier" ->
           { <<None, s_a_star, s_f>>, <<comp_a, s_b, s_f>>,
             <<comp_a, s_star, s_f>>, <<comp_ab, <<>>, s_f>> }
      [] b = "glob" ->
           { <<None, s_b, s_f>>, <<None, s_a, s_f>>, <<None, s_a_star, s_f>>,
             <<top, s_a, s_g>> }
      [] b = "alias" ->
           { <<None, s_a, s_bf>>, <<None, s_ab, s_f>> }
      [] b = "wait" ->
           { <<None, s_a, s_f>>, <<None, s_a_star, s_f>>, <<None, s_a, s_g>> }
      [] b = "typed" -> { <<None, s_a, s_f>>, <<comp_a, <<>>, s_f>> }
      [] b = "trace" -> { <<None, s_a, s_f>> }
      [] b = "steps" -> { <<None, s_a, s_f>>, <<comp_a, <<>>, s_f>> }
      [] b = "field" -> { <<None, s_a, s_f>>, <<None, s_a, s_star>> }

GetArgs(b) ==
    CASE b = "hier" -> { <<comp_a, s_b, s_f>>, <<None, s_a_b, s_f>> }
      [] b = "glob" ->
           SetArgs(b) \cup { <<None, s_a_b, s_f>>, <<None, s_a, s_h>>,
                             <<None, s_b, s_g>> }
      [] b = "alias" -> SetArgs(b)
      [] b = "wait" -> { <<None, s_a, s_f>> }
      [] b = "typed" -> SetArgs(b)
      [] b = "trace" -> { <<None, s_a, s_f>>, <<None, s_a, s_h>> }
      [] b = "steps" -> { <<None, s_a, s_f>> }
      [] b = "field" -> { <<None, s_a, s_f>>, <<None, s_a, s_g>> }

ExistsArgs(b) ==
    CASE b = "hier" -> { <<comp_ab, <<>>, s_f>> }
      [] b = "glob" ->
           { <<None, s_a, s_f>>, <<None, s_a_b, s_f>>, <<None, s_a, s_h>>,
             <<None, s_b, s_g>>, <<top, s_a, s_g>> }
      [] b = "alias" -> SetArgs(b)
      [] b = "wait" -> { <<None, s_a, s_f>> }
      [] b = "typed" -> SetArgs(b)
      [] b = "trace" -> SetArgs(b)
      [] b = "steps" -> { <<None, s_a, s_f>> }
      [] b = "field" -> { <<None, s_a, s_f>> }

\* The caller's output argument before get(a): an empty list; in the glob
\* bench also a list that holds a value and an object that cannot append, for
\* a key that is set and for a field that never is.
GetValues(b, a) ==
    IF b = "glob" /\ a \in { <<None, s_a, s_f>>, <<None, s_a, s_h>> }
    THEN { List(<<>>), List(<<0>>), NoList }
    ELSE { List(<<>>) }

WaitArgs(b) ==
    IF b = "wait"
    THEN { <<None, s_a, s_f>>, <<comp_a, <<>>, s_f>>, <<None, s_a_b, s_f>> }
    ELSE IF b = "steps" THEN { <<None, s_a, s_f>> }
    ELSE IF b = "field" THEN { <<None, s_a, s_f>>, <<None, s_a, s_star>> }
    ELSE {}

Tasks(b) == IF b \in {"wait", "steps", "field"} THEN {"A", "B"} ELSE {}

Init ==
    /\ bench \in Benches
    /\ pool = <<>>
    /\ m_rsc = <<>>
    /\ m_waiters = <<>>
    /\ phase = "none"
    /\ ready = FALSE
    /\ tracing = FALSE
    /\ clp_trace \in (IF bench \in TraceBenches THEN BOOLEAN ELSE {FALSE})
    /\ task_pc = [t \in Tasks(bench) |-> [at |-> "idle", field_name |-> <<>>]]
    /\ last_set = [value |-> 0]
    /\ written = <<>>
    /\ build_written = {}
    /\ call = [op |-> "none"]
    /\ wait_log = [t \in Tasks(bench) |->
                     [args |-> <<>>, inst_name |-> <<>>, hit |-> FALSE,
                      matched |-> FALSE, resumed |-> 0]]
    /\ last_turn = "none"
    /\ seq = <<>>

Next ==
    \/ \E a \in SetArgs(bench), v \in SetValues(bench) :
          Set(a[1], a[2], a[3], v, SetType(bench, v))
    \/ \E a \in GetArgs(bench) : \E value \in GetValues(bench, a) :
          \E T \in GetTypes(bench) : Get(a[1], a[2], a[3], value, T)
    \/ \E a \in ExistsArgs(bench) : Exists(a[1], a[2], a[3])
    \/ AdvancePhase
    \/ \E t \in Tasks(bench), a \in WaitArgs(bench) :
          WaitModified(t, a[1], a[2], a[3])
    \/ \E t \in Tasks(bench) : WaitResume(t)
    \/ TurnOnTracing
    \/ TurnOffTracing
    \/ IsTracing

Spec == Init /\ [][Next]_vars

\* The wait bench with tasks that may be killed while they wait.
InitCancel == Init /\ bench = "wait"

NextCancel ==
    \/ \E a \in SetArgs(bench), v \in SetValues(bench) :
          Set(a[1], a[2], a[3], v, SetType(bench, v))
    \/ \E t \in Tasks(bench), a \in WaitArgs(bench) :
          WaitModified(t, a[1], a[2], a[3])
    \/ \E t \in Tasks(bench) : WaitResume(t)
    \/ \E t \in Tasks(bench) : Cancel(t)

SpecCancel == InitCancel /\ [][NextCancel]_vars

\* The wait bench under the scheduler's fairness: a task whose waiter has been
\* triggered is runnable, and the scheduler runs every runnable task.
WakeTasks == Tasks("wait")

NextWake ==
    \/ \E a \in SetArgs(bench), v \in SetValues(bench) :
          Set(a[1], a[2], a[3], v, SetType(bench, v))
    \/ \E a \in GetArgs(bench) : \E value \in GetValues(bench, a) :
          Get(a[1], a[2], a[3], value, "None")
    \/ \E t \in Tasks(bench), a \in WaitArgs(bench) :
          WaitModified(t, a[1], a[2], a[3])
    \/ \E t \in Tasks(bench) : WaitResume(t)

SpecWake ==
    /\ InitCancel
    /\ [][NextWake]_vars
    /\ \A t \in WakeTasks : WF_vars(WaitResume(t))

\* The benches that run phases, alone: the calls of set, get and exists from
\* the root and from the components, before, in and after the build phase.
InitPhased == Init /\ bench \in PhasedBenches

NextPhased ==
    \/ \E a \in SetArgs(bench), v \in SetValues(bench) :
          Set(a[1], a[2], a[3], v, SetType(bench, v))
    \/ \E a \in GetArgs(bench) : \E value \in GetValues(bench, a) :
          \E T \in GetTypes(bench) : Get(a[1], a[2], a[3], value, T)
    \/ \E a \in ExistsArgs(bench) : Exists(a[1], a[2], a[3])
    \/ AdvancePhase

SpecPhased == InitPhased /\ [][NextPhased]_vars

\* The bench of the unit test alone: its gets are also made with an output
\* argument that holds a value already and with one that cannot append.
InitGlob == Init /\ bench = "glob"

NextGlob ==
    \/ \E a \in SetArgs(bench), v \in SetValues(bench) :
          Set(a[1], a[2], a[3], v, SetType(bench, v))
    \/ \E a \in GetArgs(bench) : \E value \in GetValues(bench, a) :
          \E T \in GetTypes(bench) : Get(a[1], a[2], a[3], value, T)
    \/ \E a \in ExistsArgs(bench) : Exists(a[1], a[2], a[3])

SpecGlob == InitGlob /\ [][NextGlob]_vars

\* A bench whose sets write a field name that is a pattern, while tasks wait
\* for a literal field name and for the pattern itself.
InitField ==
    /\ bench = "field"
    /\ pool = <<>>
    /\ m_rsc = <<>>
    /\ m_waiters = <<>>
    /\ phase = "none"
    /\ ready = FALSE
    /\ tracing = FALSE
    /\ clp_trace = FALSE
    /\ task_pc = [t \in Tasks(bench) |-> [at |-> "idle", field_name |-> <<>>]]
    /\ last_set = [value |-> 0]
    /\ written = <<>>
    /\ build_written = {}
    /\ call = [op |-> "none"]
    /\ wait_log = [t \in Tasks(bench) |->
                     [args |-> <<>>, inst_name |-> <<>>, hit |-> FALSE,
                      matched |-> FALSE, resumed |-> 0]]
    /\ last_turn = "none"
    /\ seq = <<>>

NextField ==
    \/ \E a \in SetArgs(bench), v \in SetValues(bench) :
          Set(a[1], a[2], a[3], v, SetType(bench, v))
    \/ \E a \in GetArgs(bench) : \E value \in GetValues(bench, a) :
          Get(a[1], a[2], a[3], value, "None")
    \/ \E t \in Tasks(bench), a \in WaitArgs(bench) :
          WaitModified(t, a[1], a[2], a[3])
    \/ \E t \in Tasks(bench) : WaitResume(t)

SpecField == InitField /\ [][NextField]_vars




----------------------------------------------------------------------------
\* The sequence macros (uvm/macros/uvm_sequence_defines.py). A task runs one
\* macro on behalf of the sequence seq_obj; create_item, start_item,
\* randomize_with, finish_item and start are methods of the sequence and of
\* the item: the model records each call with its arguments, and the awaited
\* ones return when the sequencer lets them.

\* The variables of the configuration database.
db_vars == <<pool, m_rsc, m_waiters, phase, ready, tracing, clp_trace, bench,
             task_pc, last_set, written, build_written, call, wait_log,
             last_turn>>

SeqTasks == {"D", "W"}

\* The sequence the macros are called from (seq_obj) and its m_sequencer.
seq_obj == "seq0"
m_sequencer(s) == "sqr0"

\* The sequencers a macro may be given as SEQR.
Sequencers == {"sqr0", "sqr1"}

\* SEQ_OR_ITEM: an item, a sequence, a sequence with do_not_randomize set, and
\* an item whose type is not registered with the factory.
SeqOrItems == {"req", "sub", "sub_nr", "anon"}

\* isinstance(o, UVMSequence)
IsSequence(o) == o \in {"sub", "sub_nr"}

do_not_randomize(o) == IF o = "sub_nr" THEN 1 ELSE 0

\* The sequencer a sequence was created on.
get_sequencer(o) == "sqr1"

\* SEQ_OR_ITEM.get_type(): None when the type is not registered.
get_type(o) ==
    IF o = "anon" THEN None
    ELSE IF IsSequence(o) THEN "UVMSequence" ELSE "UVMSequenceItem"

\* The priority the macros without a PRIORITY argument pass.
DefaultPriority == -1

Priorities == {DefaultPriority, 100}

\* The literals uvm_do and uvm_do_on pass as their one constraint argument.
EmptyList == "[]"
EmptyDict == "{}"

\* *CONSTRAINTS as the caller gives them: none, or one lambda.
ConstraintArgs == {<<>>, <<"lambda">>}

\* Mutant of uvm_create_on: after the fatal report the item is created all
\* the same.
uvm_create_on_CreatesAfterFatal(s, o, SEQR) ==
    [created |-> get_type(o),
     log |-> (IF get_type(o) = None
              THEN <<[ev |-> "uvm_fatal", id |-> "uvm_create_on"]>>
              ELSE <<>>)
             \o <<[ev |-> "create_item", seq |-> s, type |-> get_type(o),
                   sqr |-> SEQR, name |-> "SEQ_OR_ITEM"]>>]

\* uvm_create_on(seq_obj, SEQ_OR_ITEM, SEQR): the type of the object returned
\* (None after the fatal report) and the calls made.
uvm_create_on(s, o, SEQR) ==
    IF get_type(o) = None
    THEN [created |-> None,
          log |-> <<[ev |-> "uvm_fatal", id |-> "uvm_create_on"]>>]
    ELSE [created |-> get_type(o),
          log |-> <<[ev |-> "create_item", seq |-> s, type |-> get_type(o),
                     sqr |-> SEQR, name |-> "SEQ_OR_ITEM"]>>]

\* if SEQ_OR_ITEM.randomize_with(*CONSTRAINTS) is False: uvm_warning(...)
Randomize(o, CONSTRAINTS, ok) ==
    <<[ev |-> "randomize_with", obj |-> o, cons |-> CONSTRAINTS]>>
    \o (IF ok THEN <<>> ELSE <<[ev |-> "uvm_warning", id |-> "RNDFLD"]>>)

\* Mutant of DoItemBegin: the item is randomized before start_item is awaited.
DoItemBegin_EarlyRandomize(s, o, PRIORITY, CONSTRAINTS, ok) ==
    Randomize(o, CONSTRAINTS, ok)
    \o <<[ev |-> "start_item", seq |-> s, obj |-> o, pri |-> PRIORITY]>>

\* uvm_do_on_pri_with, item branch, up to its first await.
DoItemBegin(s, o, PRIORITY, CONSTRAINTS, ok) ==
    <<[ev |-> "start_item", seq |-> s, obj |-> o, pri |-> PRIORITY]>>

\* uvm_do_on_pri_with, item branch, from the return of start_item to the
\* await of finish_item.
DoItemResume(s, o, PRIORITY, CONSTRAINTS, ok) ==
    <<[ev |-> "start_item returned"]>>
    \o Randomize(o, CONSTRAINTS, ok)
    \o <<[ev |-> "finish_item", seq |-> s, obj |-> o, pri |-> PRIORITY]>>

\* Mutant of DoSeqBegin: the sequence is randomized whatever its
\* do_not_randomize flag says.
DoSeqBegin_IgnoresFlag(s, o, SEQR, PRIORITY, CONSTRAINTS, ok) ==
    Randomize(o, CONSTRAINTS, ok)
    \o <<[ev |-> "start", obj |-> o, sqr |-> SEQR, parent |-> s,
          pri |-> PRIORITY, call_pre_post |-> 0]>>

\* uvm_do_on_pri_with, sequence branch, up to its await of start.
DoSeqBegin(s, o, SEQR, PRIORITY, CONSTRAINTS, ok) ==
    (IF do_not_randomize(o) = 0 THEN Randomize(o, CONSTRAINTS, ok) ELSE <<>>)
    \o <<[ev |-> "start", obj |-> o, sqr |-> SEQR, parent |-> s,
          pri |-> PRIORITY, call_pre_post |-> 0]>>

\* Mutant of SendSeqBegin: the sequence is started on the caller's sequencer.
SendSeqBegin_OnCallerSequencer(s, o, PRIORITY) ==
    <<[ev |-> "start", obj |-> o, sqr |-> m_sequencer(s), parent |-> s,
       pri |-> PRIORITY, call_pre_post |-> 0]>>

\* uvm_send_pri, sequence branch, up to its await of start.
SendSeqBegin(s, o, PRIORITY) ==
    <<[ev |-> "start", obj |-> o, sqr |-> get_sequencer(o), parent |-> s,
       pri |-> PRIORITY, call_pre_post |-> 0]>>

\* uvm_send_pri, item branch, up to its first await.
SendItemBegin(s, o, PRIORITY) ==
    <<[ev |-> "start_item", seq |-> s, obj |-> o, pri |-> PRIORITY]>>

\* uvm_send_pri, item branch, from the return of start_item on.
SendItemResume(s, o, PRIORITY) ==
    <<[ev |-> "start_item returned"],
      [ev |-> "finish_item", seq |-> s, obj |-> o, pri |-> PRIORITY]>>

\* A task: where it is (pc), the macro it was called as and the function whose
\* body it is in (fn), the arguments of that function, the calls made so far.
SeqTask(pc, macro, fn, o, SEQR, PRIORITY, CONSTRAINTS, log) ==
    [pc |-> pc, macro |-> macro, fn |-> fn, obj |-> o, sqr |-> SEQR,
     pri |-> PRIORITY, cons |-> CONSTRAINTS, log |-> log]

SeqIdle == [pc |-> "idle", macro |-> "", fn |-> "", log |-> <<>>]

\* async def uvm_do_on_pri_with(seq_obj, SEQ_OR_ITEM, SEQR, PRIORITY,
\* *CONSTRAINTS), called as macro: its body up to the first await. ok is the
\* result of randomize_with; ends says whether the fatal report of
\* uvm_create_on ends the run.
uvm_do_on_pri_with(t, macro, o, SEQR, PRIORITY, CONSTRAINTS, ok, ends) ==
    LET c == uvm_create_on(seq_obj, o, SEQR)
        fn == "uvm_do_on_pri_with"
    IN /\ seq[t].pc = "idle"
       /\ seq' = [seq EXCEPT ![t] =
            IF c.created = None /\ ends
            THEN SeqTask("fatal", macro, fn, o, SEQR, PRIORITY, CONSTRAINTS,
                         c.log)
            ELSE IF c.created = "UVMSequence"
            THEN SeqTask("start", macro, fn, o, SEQR, PRIORITY, CONSTRAINTS,
                         c.log \o DoSeqBegin(seq_obj, o, SEQR, PRIORITY,
                                             CONSTRAINTS, ok))
            ELSE SeqTask("start_item", macro, fn, o, SEQR, PRIORITY,
                         CONSTRAINTS,
                         c.log \o DoItemBegin(seq_obj, o, PRIORITY,
                                              CONSTRAINTS, ok))]
       /\ UNCHANGED db_vars

\* await uvm_do_on_pri_with(seq_obj, SEQ_OR_ITEM, seq_obj.m_sequencer, -1, [])
uvm_do(t, o, ok, ends) ==
    uvm_do_on_pri_with(t, "uvm_do", o, m_sequencer(seq_obj), DefaultPriority,
                       <<EmptyList>>, ok, ends)

\* await uvm_do_on_pri_with(seq_obj, SEQ_OR_ITEM, seq_obj.m_sequencer, -1,
\* *CONSTRAINTS)
uvm_do_with(t, o, CONSTRAINTS, ok, ends) ==
    uvm_do_on_pri_with(t, "uvm_do_with", o, m_sequencer(seq_obj),
                       DefaultPriority, CONSTRAINTS, ok, ends)

\* await uvm_do_on_pri_with(seq_obj, SEQ_OR_ITEM, seq_obj.m_sequencer,
\* PRIORITY, *CONSTRAINTS)
uvm_do_pri_with(t, o, PRIORITY, CONSTRAINTS, ok, ends) ==
    uvm_do_on_pri_with(t, "uvm_do_pri_with", o, m_sequencer(seq_obj),
                       PRIORITY, CONSTRAINTS, ok, ends)

\* await uvm_do_on_pri_with(seq_obj, SEQ_OR_ITEM, SEQR, -1, {})
uvm_do_on(t, o, SEQR, ok, ends) ==
    uvm_do_on_pri_with(t, "uvm_do_on", o, SEQR, DefaultPriority,
                       <<EmptyDict>>, ok, ends)

\* await uvm_do_on_pri_with(seq_obj, SEQ_OR_ITEM, SEQR, -1, *CONSTRAINTS)
uvm_do_on_with(t, o, SEQR, CONSTRAINTS, ok, ends) ==
    uvm_do_on_pri_with(t, "uvm_do_on_with", o, SEQR, DefaultPriority,
                       CONSTRAINTS, ok, ends)

\* async def uvm_send_pri(seq_obj, SEQ_OR_ITEM, PRIORITY), called as macro: its
\* body up to the first await.
uvm_send_pri(t, macro, o, PRIORITY) ==
    /\ seq[t].pc = "idle"
    /\ seq' = [seq EXCEPT ![t] =
         IF IsSequence(o)
         THEN SeqTask("start", macro, "uvm_send_pri", o, get_sequencer(o),
                      PRIORITY, <<>>, SendSeqBegin(seq_obj, o, PRIORITY))
         ELSE SeqTask("start_item", macro, "uvm_send_pri", o, None, PRIORITY,
                      <<>>, SendItemBegin(seq_obj, o, PRIORITY))]
    /\ UNCHANGED db_vars

\* await uvm_send_pri(seq_obj, SEQ_OR_ITEM, -1)
uvm_send(t, o) == uvm_send_pri(t, "uvm_send", o, DefaultPriority)

\* uvm_create(seq_obj, SEQ_OR_ITEM, m_sequencer): return uvm_create_on(...);
\* not awaited, so the task is done in the same step.
uvm_create(t, o, SEQR, ends) ==
    LET c == uvm_create_on(seq_obj, o, SEQR)
    IN /\ seq[t].pc = "idle"
       /\ seq' = [seq EXCEPT ![t] =
            SeqTask(IF c.created = None /\ ends THEN "fatal" ELSE "done",
                    "uvm_create", "uvm_create_on", o, SEQR, DefaultPriority,
                    <<>>,
                    IF c.created = None /\ ends THEN c.log
                    ELSE Append(c.log, [ev |-> "return", value |-> c.created]))]
       /\ UNCHANGED db_vars

\* start_item returns to the task that awaits it.
StartItemReturn(t, ok) ==
    LET s == seq[t]
    IN /\ s.pc = "start_item"
       /\ seq' = [seq EXCEPT ![t] =
            [s EXCEPT !.pc = "finish_item",
                      !.log = @ \o (IF s.fn = "uvm_do_on_pri_with"
                                    THEN DoItemResume(seq_obj, s.obj, s.pri,
                                                      s.cons, ok)
                                    ELSE SendItemResume(seq_obj, s.obj,
                                                        s.pri))]]
       /\ UNCHANGED db_vars

\* finish_item returns: the macro returns.
FinishItemReturn(t) ==
    /\ seq[t].pc = "finish_item"
    /\ seq' = [seq EXCEPT ![t].pc = "done",
                          ![t].log = @ \o <<[ev |-> "finish_item returned"]>>]
    /\ UNCHANGED db_vars

\* start returns: the macro returns.
StartReturn(t) ==
    /\ seq[t].pc = "start"
    /\ seq' = [seq EXCEPT ![t].pc = "done",
                          ![t].log = @ \o <<[ev |-> "start returned"]>>]
    /\ UNCHANGED db_vars

\* The macros each task calls.
Macros(t) ==
    IF t = "D" THEN {"uvm_do", "uvm_do_on", "uvm_send", "uvm_create"}
    ELSE {"uvm_do_with", "uvm_do_pri_with", "uvm_do_on_with",
          "uvm_do_on_pri_with", "uvm_send_pri"}

Callers(macro) == {t \in SeqTasks : macro \in Macros(t)}

InitSeq ==
    /\ bench = "seq"
    /\ pool = <<>>
    /\ m_rsc = <<>>
    /\ m_waiters = <<>>
    /\ phase = "none"
    /\ ready = FALSE
    /\ tracing = FALSE
    /\ clp_trace = FALSE
    /\ task_pc = <<>>
    /\ last_set = [value |-> 0]
    /\ written = <<>>
    /\ build_written = {}
    /\ call = [op |-> "none"]
    /\ wait_log = <<>>
    /\ last_turn = "none"
    /\ seq = [t \in SeqTasks |-> SeqIdle]

NextSeq ==
    \/ \E t \in Callers("uvm_do"), o \in SeqOrItems, ok, ends \in BOOLEAN :
          uvm_do(t, o, ok, ends)
    \/ \E t \in Callers("uvm_do_with"), o \in SeqOrItems,
          CONSTRAINTS \in ConstraintArgs, ok, ends \in BOOLEAN :
          uvm_do_with(t, o, CONSTRAINTS, ok, ends)
    \/ \E t \in Callers("uvm_do_pri_with"), o \in SeqOrItems,
          PRIORITY \in Priorities, CONSTRAINTS \in ConstraintArgs,
          ok, ends \in BOOLEAN :
          uvm_do_pri_with(t, o, PRIORITY, CONSTRAINTS, ok, ends)
    \/ \E t \in Callers("uvm_do_on"), o \in SeqOrItems, SEQR \in Sequencers,
          ok, ends \in BOOLEAN :
          uvm_do_on(t, o, SEQR, ok, ends)
    \/ \E t \in Callers("uvm_do_on_with"), o \in SeqOrItems,
          SEQR \in Sequencers, CONSTRAINTS \in ConstraintArgs,
          ok, ends \in BOOLEAN :
          uvm_do_on_with(t, o, SEQR, CONSTRAINTS, ok, ends)
    \/ \E t \in Callers("uvm_do_on_pri_with"), o \in SeqOrItems,
          SEQR \in Sequencers, PRIORITY \in Priorities,
          CONSTRAINTS \in ConstraintArgs, ok, ends \in BOOLEAN :
          uvm_do_on_pri_with(t, "uvm_do_on_pri_with", o, SEQR, PRIORITY,
                             CONSTRAINTS, ok, ends)
    \/ \E t \in Callers("uvm_send"), o \in SeqOrItems : uvm_send(t, o)
    \/ \E t \in Callers("uvm_send_pri"), o \in SeqOrItems,
          PRIORITY \in Priorities :
          uvm_send_pri(t, "uvm_send_pri", o, PRIORITY)
    \/ \E t \in Callers("uvm_create"), o \in SeqOrItems, SEQR \in Sequencers,
          ends \in BOOLEAN :
          uvm_create(t, o, SEQR, ends)
    \/ \E t \in SeqTasks, ok \in BOOLEAN : StartItemReturn(t, ok)
    \/ \E t \in SeqTasks : FinishItemReturn(t)
    \/ \E t \in SeqTasks : StartReturn(t)

SpecSeq == InitSeq /\ [][NextSeq]_vars

----------------------------------------------------------------------------
\* set, one group of statements at a time. Tasks are coroutines under a
\* cooperative scheduler: the task that runs keeps running until it suspends,
\* and the other tasks (calls of set, get, exists and wait_modified, the
\* resumption of a waiting task, the phase change) run only while no task is
\* inside a call. A task inside set holds the call's local variables in
\* task_pc: the arguments, cntxt, inst_name, exists, the resource r and, for
\* comparison, what the call has to leave behind (expect).

\* Task t is inside a call of set.
MidSet(t) == task_pc[t].at \in {"added", "ranked", "written", "reordered", "scanned"}

\* Task t is inside a call and has not suspended.
Running(t) == MidSet(t) /\ task_pc[t].run

NoTaskRuns == \A t \in DOMAIN task_pc : ~Running(t)

\* The resource r of the call, which is the object in the pool once it is
\* there: an assignment to r is an assignment to the pool's resource.
AssignResource(p, r) ==
    IF InPool(p, ResId(r)) THEN [p EXCEPT ![PoolIndex(p, ResId(r))] = r] ELSE p

\* set up to the lookup of the resource: cntxt and inst_name are resolved, the
\* context's cache is looked up and a resource that is missing is created and
\* added to the cache.
SetLookup(t, c, i, field_name, value) ==
    LET cntxt == SetCntxt(c)
        inst_name == SetInstName(cntxt, i)
        cpool == CachePool(cntxt)
        lookup == LookupKey(inst_name, field_name)
        exists == lookup \in DOMAIN cpool
    IN /\ NoTaskRuns
       /\ task_pc[t].at = "idle"
       /\ exists => InPool(pool, <<cntxt>> \o cpool[lookup])
       /\ m_rsc' = IF exists THEN m_rsc
                   ELSE (cntxt :> ((lookup :> <<inst_name, field_name>>) @@ cpool))
                        @@ m_rsc
       /\ task_pc' = [task_pc EXCEPT ![t] =
             [at |-> "added", run |-> ~Suspends("set"),
              c |-> c, i |-> i, cntxt |-> cntxt, inst_name |-> inst_name,
              field_name |-> field_name, value |-> value,
              curr_phase |-> phase, exists |-> exists,
              r |-> IF exists
                    THEN pool[PoolIndex(pool, <<cntxt>> \o cpool[lookup])]
                    ELSE NewResource(cntxt, inst_name, field_name),
              expect |-> SetOf(FALSE, c, i, field_name, value)]]
       /\ call' = [op |-> "none"]
       /\ UNCHANGED <<pool, m_waiters, phase, ready, tracing, clp_trace, bench,
                      last_turn, seq, last_set, written, build_written, wait_log>>

\* r.precedence = ...
SetRank(t) ==
    LET l == task_pc[t]
        r == [l.r EXCEPT !.precedence = SetPrecedence(l.curr_phase, l.cntxt)]
    IN /\ l.at = "added"
       /\ \A u \in DOMAIN task_pc : Running(u) => u = t
       /\ pool' = AssignResource(pool, r)
       /\ task_pc' = [task_pc EXCEPT ![t] =
             [l EXCEPT !.at = "ranked", !.r = r, !.run = ~Suspends("set")]]
       /\ call' = [op |-> "none"]
       /\ UNCHANGED <<m_rsc, m_waiters, phase, ready, tracing, clp_trace, bench,
                      last_turn, seq, last_set, written, build_written, wait_log>>

\* r.write(value, cntxt)
SetWrite(t) ==
    LET l == task_pc[t]
        r == [l.r EXCEPT !.val = l.value]
    IN /\ l.at = "ranked"
       /\ \A u \in DOMAIN task_pc : Running(u) => u = t
       /\ pool' = AssignResource(pool, r)
       /\ task_pc' = [task_pc EXCEPT ![t] =
             [l EXCEPT !.at = "written", !.r = r, !.run = ~Suspends("set")]]
       /\ call' = [op |-> "none"]
       /\ UNCHANGED <<m_rsc, m_waiters, phase, ready, tracing, clp_trace, bench,
                      last_turn, seq, last_set, written, build_written, wait_log>>

\* rp.set_priority_name(r, PRI_HIGH) or r.set_override()
SetPrioritise(t) ==
    LET l == task_pc[t]
    IN /\ l.at = "written"
       /\ \A u \in DOMAIN task_pc : Running(u) => u = t
       /\ pool' = SetReorder(pool, l.r, l.exists)
       /\ task_pc' = [task_pc EXCEPT ![t] =
             [l EXCEPT !.at = "reordered", !.run = ~Suspends("set")]]
       /\ call' = [op |-> "none"]
       /\ UNCHANGED <<m_rsc, m_waiters, phase, ready, tracing, clp_trace, bench,
                      last_turn, seq, last_set, written, build_written, wait_log>>

\* The scan of the waiters of field_name.
SetScan(t) ==
    LET l == task_pc[t]
    IN /\ l.at = "reordered"
       /\ \A u \in DOMAIN task_pc : Running(u) => u = t
       /\ m_waiters' = SetWaiters(m_waiters, l.inst_name, l.field_name)
       /\ task_pc' = [task_pc EXCEPT ![t] =
             [l EXCEPT !.at = "scanned", !.run = ~Suspends("set")]]
       /\ wait_log' = [u \in DOMAIN wait_log |->
             IF task_pc[u].at = "waiting"
             THEN [wait_log[u] EXCEPT
                     !.hit = @ \/ wait_log[u].args = <<l.cntxt, l.i, l.field_name>>,
                     !.matched = @ \/ (/\ wait_log[u].args[3] = l.field_name
                                       /\ GlobMatch(l.inst_name,
                                                    wait_log[u].inst_name))]
             ELSE wait_log[u]]
       /\ call' = [op |-> "none"]
       /\ UNCHANGED <<pool, m_rsc, phase, ready, tracing, clp_trace, bench,
                      last_turn, seq, last_set, written, build_written>>

\* The test of is_tracing() and the return of set.
SetReturn(t) ==
    LET l == task_pc[t]
        opt == is_tracing(Options)
        key == <<l.cntxt, l.inst_name, l.field_name>>
    IN /\ l.at = "scanned"
       /\ \A u \in DOMAIN task_pc : Running(u) => u = t
       /\ ready' = opt.ready
       /\ tracing' = opt.tracing
       /\ task_pc' = [task_pc EXCEPT ![t] = [at |-> "idle", field_name |-> <<>>]]
       /\ last_set' = [cntxt |-> l.c, inst_name |-> l.i,
                       field_name |-> l.field_name, value |-> l.value,
                       build |-> (l.curr_phase = "build"), exists |-> l.exists,
                       T |-> "None", held |-> l.expect.held,
                       msg |-> SetTrace(opt.tracing, pool, l.r).msg]
       /\ written' = (key :> l.value) @@ written
       /\ build_written' = IF l.curr_phase = "build"
                           THEN build_written \cup {key}
                           ELSE build_written \ {key}
       /\ call' = [op |-> "none"]
       /\ UNCHANGED <<pool, m_rsc, m_waiters, phase, clp_trace, bench,
                      last_turn, seq, wait_log>>

InitSteps ==
    /\ bench = "steps"
    /\ pool = <<>>
    /\ m_rsc = <<>>
    /\ m_waiters = <<>>
    /\ phase = "none"
    /\ ready = FALSE
    /\ tracing = FALSE
    /\ clp_trace = FALSE
    /\ task_pc = [t \in Tasks(bench) |-> [at |-> "idle", field_name |-> <<>>]]
    /\ last_set = [value |-> 0]
    /\ written = <<>>
    /\ build_written = {}
    /\ call = [op |-> "none"]
    /\ wait_log = [t \in Tasks(bench) |->
                     [args |-> <<>>, inst_name |-> <<>>, hit |-> FALSE,
                      matched |-> FALSE, resumed |-> 0]]
    /\ last_turn = "none"
    /\ seq = <<>>

NextSteps ==
    \/ \E t \in Tasks(bench), a \in SetArgs(bench), v \in SetValues(bench) :
          SetLookup(t, a[1], a[2], a[3], v)
    \/ \E t \in Tasks(bench) : SetRank(t)
    \/ \E t \in Tasks(bench) : SetWrite(t)
    \/ \E t \in Tasks(bench) : SetPrioritise(t)
    \/ \E t \in Tasks(bench) : SetScan(t)
    \/ \E t \in Tasks(bench) : SetReturn(t)
    \/ \E a \in GetArgs(bench) : \E value \in GetValues(bench, a) :
          NoTaskRuns /\ Get(a[1], a[2], a[3], value, "None")
    \/ \E a \in ExistsArgs(bench) : NoTaskRuns /\ Exists(a[1], a[2], a[3])
    \/ NoTaskRuns /\ AdvancePhase
    \/ \E t \in Tasks(bench), a \in WaitArgs(bench) :
          NoTaskRuns /\ WaitModified(t, a[1], a[2], a[3])
    \/ \E t \in Tasks(bench) : NoTaskRuns /\ WaitResume(t)

SpecSteps == InitSteps /\ [][NextSteps]_vars

----------------------------------------------------------------------------
\* Properties.

\* The calls whose results the properties speak of.
QueryArgs == SetArgs(bench) \cup GetArgs(bench) \cup ExistsArgs(bench)

\* The absolute path of instance i below context c.
AbsPath(c, i) == GetInstName(GetCntxt(c), i)

\* Resource e is stored under patterns that match the concrete inst_name and
\* field_name.
Matches(e, inst_name, field_name) ==
    GlobMatch(e[2], inst_name) /\ GlobMatch(e[3], field_name)

\* The keys <<cntxt, scope, name>> of the resources in the pool that match.
Candidates(inst_name, field_name) ==
    { ResId(pool[k]) : k \in { j \in 1..Len(pool) :
                               Matches(ResId(pool[j]), inst_name, field_name) } }

Resource(id) == pool[PoolIndex(pool, id)]

\* A set has been made.
LastSetMade == last_set.value # 0

\* The key the most recent set wrote.
LastKey ==
    <<SetCntxt(last_set.cntxt),
      SetInstName(SetCntxt(last_set.cntxt), last_set.inst_name),
      last_set.field_name>>

\* get(a) now returns true and appends exactly v to an empty list.
GetReturns(a, v) ==
    LET res == GetOf(pool, a[1], a[2], a[3], List(<<>>))
    IN res.ret = 1 /\ ~res.raised /\ res.value = List(<<v>>)

\* The most recent call was get(a, List(<<>>)); it returned true and appended v.
GetReturned(a, v) ==
    /\ call.op = "get"
    /\ <<call.cntxt, call.inst_name, call.field_name>> = a
    /\ call.before = List(<<>>)
    /\ call.ret = 1 /\ ~call.raised
    /\ call.after = List(<<v>>)

LastArgs == <<last_set.cntxt, last_set.inst_name, last_set.field_name>>

\* C1 as stated: after set(ctx, i, f, v), a get(ctx, i, f, out) made before any
\* other write returns true and appends exactly v to out.
C1_SetThenGetReturnsValue ==
    (/\ LastSetMade
     /\ call.op = "get"
     /\ <<call.cntxt, call.inst_name, call.field_name>> = LastArgs
     /\ call.before.has_append)
    => /\ call.ret = 1 /\ ~call.raised
       /\ call.after.items = Append(call.before.items, last_set.value)

\* C1 amended: after set(ctx, i, f, v), get(ctx, i, f, out) returns true and
\* appends exactly v whenever no stored resource matching the key has a
\* precedence greater than that of the resource just written; in particular
\* after every set made outside the build phase.
C1_SetThenGetUnlessOutranked ==
    LastSetMade =>
        LET inst_name == AbsPath(last_set.cntxt, last_set.inst_name)
            cands == Candidates(inst_name, last_set.field_name)
            outranked ==
                \E e \in cands : /\ InPool(pool, LastKey)
                                 /\ Resource(e).precedence
                                      > Resource(LastKey).precedence
        IN /\ ~outranked => GetReturns(LastArgs, last_set.value)
           /\ ~last_set.build => ~outranked

\* C1 witness: a build-phase set, another matching resource of the same
\* precedence in the pool, and the get of the same key has returned the value.
C1_Witness ==
    /\ LastSetMade /\ last_set.build
    /\ GetReturned(LastArgs, last_set.value)
    /\ \E e \in Candidates(AbsPath(last_set.cntxt, last_set.inst_name),
                           last_set.field_name) :
          e # LastKey /\ Resource(e).val # last_set.value

\* C2: when every resource matching a lookup was last written in the build
\* phase and one of them by a context strictly shallower than the writers of
\* all the others, get returns that one's value, in whatever order they were
\* written.
C2_ShallowerBuildWriterWins ==
    \A a \in QueryArgs :
        LET cands == Candidates(AbsPath(a[1], a[2]), a[3])
        IN \A e1 \in cands :
              (/\ cands \subseteq build_written
               /\ Cardinality(cands) >= 2
               /\ \A e2 \in cands \ {e1} : get_depth(e1[1]) < get_depth(e2[1]))
              => GetReturns(a, written[e1])

\* C2 witness: two build-phase writes match the lookup, the deeper context
\* wrote last, and get has returned the shallower context's value.
C2_Witness ==
    /\ call.op = "get"
    /\ LET a == <<call.cntxt, call.inst_name, call.field_name>>
           cands == Candidates(AbsPath(a[1], a[2]), a[3])
       IN /\ Cardinality(cands) = 2
          /\ cands \subseteq build_written
          /\ LastKey \in cands
          /\ \E e1 \in cands :
                /\ get_depth(e1[1]) < get_depth(LastKey[1])
                /\ written[e1] # last_set.value
                /\ GetReturned(a, written[e1])

\* C3: after a set made outside the build phase, by a context of any depth,
\* every get whose lookup the written key matches returns the value written,
\* whatever was set before.
C3_RuntimeSetOverridesBuild ==
    (LastSetMade /\ ~last_set.build) =>
        \A a \in QueryArgs :
            Matches(LastKey, AbsPath(a[1], a[2]), a[3])
            => GetReturns(a, last_set.value)

\* C3 witness: a build-phase resource written by a shallower context matches
\* the lookup, and get has returned the value of the later runtime set.
C3_Witness ==
    /\ LastSetMade /\ ~last_set.build /\ phase = "run"
    /\ call.op = "get"
    /\ LET a == <<call.cntxt, call.inst_name, call.field_name>>
       IN /\ GetReturned(a, last_set.value)
          /\ \E e \in Candidates(AbsPath(a[1], a[2]), a[3]) \cap build_written :
                /\ get_depth(e[1]) < get_depth(LastKey[1])
                /\ written[e] # last_set.value

\* C4: after a set outside the build phase that updated an existing key, get on
\* the same (ctx, i, f), for any type or for the type of the value, returns the
\* value of that last set.
C4_LastRuntimeSetToKeyWins ==
    (LastSetMade /\ ~last_set.build /\ last_set.exists) =>
        /\ GetReturns(LastArgs, last_set.value)
        /\ (call.op = "get"
            /\ <<call.cntxt, call.inst_name, call.field_name>> = LastArgs
            /\ call.T \in {"None", TypeOf(last_set.value)}
            /\ call.before.has_append)
           => /\ call.ret = 1
              /\ call.after.items = Append(call.before.items, last_set.value)

\* C4 witness: the key was written again outside the build phase after another
\* matching key had been written, and get on the key has returned the last value.
C4_Witness ==
    /\ LastSetMade /\ ~last_set.build /\ last_set.exists
    /\ GetReturned(LastArgs, last_set.value)
    /\ \E e \in Candidates(AbsPath(last_set.cntxt, last_set.inst_name),
                           last_set.field_name) :
          e # LastKey /\ written[e] # last_set.value

\* C5: after a build-phase set, a get whose matching resources were all last
\* written in the build phase by contexts of the writer's depth returns the
\* value of that most recent set, whether it created or updated its resource.
C5_SameDepthLastSetWins ==
    (LastSetMade /\ last_set.build) =>
        \A a \in QueryArgs :
            LET cands == Candidates(AbsPath(a[1], a[2]), a[3])
            IN (/\ LastKey \in cands
                /\ cands \subseteq build_written
                /\ \A e \in cands : get_depth(e[1]) = get_depth(LastKey[1]))
               => GetReturns(a, last_set.value)

\* C5 witness: two keys written in the build phase by contexts of equal depth
\* match the lookup, the last set updated an existing resource, and get has
\* returned its value.
C5_Witness ==
    /\ LastSetMade /\ last_set.build /\ last_set.exists
    /\ call.op = "get"
    /\ LET a == <<call.cntxt, call.inst_name, call.field_name>>
           cands == Candidates(AbsPath(a[1], a[2]), a[3])
       IN /\ LastKey \in cands
          /\ cands \subseteq build_written
          /\ \A e \in cands : get_depth(e[1]) = get_depth(LastKey[1])
          /\ \E e \in cands : e # LastKey /\ written[e] # last_set.value
          /\ GetReturned(a, last_set.value)

\* Some key ever written matches the concrete inst_name and field_name.
EverSetMatching(inst_name, field_name) ==
    \E k \in DOMAIN written : Matches(k, inst_name, field_name)

\* C6: get returns only the value of a key whose instance pattern matches the
\* whole path looked up; once "a" and "a.*" have been set by the root, in any
\* order and whatever else was set, get on "a" returns the value set for "a"
\* and get on "a.b" returns the value set for "a.*".
C6_GetMatchesWholeInstancePath ==
    /\ \A a \in QueryArgs :
          LET res == GetOf(pool, a[1], a[2], a[3], List(<<>>))
          IN res.ret = 1 =>
                \E k \in DOMAIN written :
                    /\ Matches(k, AbsPath(a[1], a[2]), a[3])
                    /\ res.value = List(<<written[k]>>)
    /\ (/\ bench = "glob"
        /\ <<top, s_a, s_f>> \in DOMAIN written
        /\ <<top, s_a_star, s_f>> \in DOMAIN written)
       => /\ GetReturns(<<None, s_a, s_f>>, written[<<top, s_a, s_f>>])
          /\ GetReturns(<<None, s_a_b, s_f>>, written[<<top, s_a_star, s_f>>])

\* C6 witness: "b", "a" and then "a.*" have been set, "a" and "a.*" to
\* different values, and get on "a.b" has returned the value set for "a.*".
C6_Witness ==
    /\ bench = "glob"
    /\ {<<top, s_b, s_f>>, <<top, s_a, s_f>>, <<top, s_a_star, s_f>>}
          \subseteq DOMAIN written
    /\ written[<<top, s_a, s_f>>] # written[<<top, s_a_star, s_f>>]
    /\ LastKey = <<top, s_a_star, s_f>>
    /\ GetReturned(<<None, s_a_b, s_f>>, written[<<top, s_a_star, s_f>>])
    /\ GetReturns(<<None, s_a, s_f>>, written[<<top, s_a, s_f>>])

\* C7: two keys of one context whose instance path and field name concatenate
\* to the same string are kept apart: each has its own resource holding the
\* value last written to it, and a get on one of them never returns a value
\* written only to the other.
C7_ConcatenationsDoNotAlias ==
    \A k1 \in DOMAIN written :
        \A a \in QueryArgs :
            LET inst_name == AbsPath(a[1], a[2])
                k2 == <<GetCntxt(a[1]), inst_name, a[3]>>
            IN (k1 # k2 /\ k1[1] = k2[1] /\ k1[2] \o k1[3] = k2[2] \o k2[3])
               => /\ InPool(pool, k1) /\ Resource(k1).val = written[k1]
                  /\ k2 \in DOMAIN written
                        => /\ InPool(pool, k2)
                           /\ Resource(k2).val = written[k2]
                           /\ GetReturns(a, written[k2])
                  /\ ~EverSetMatching(inst_name, a[3])
                        => GetOf(pool, a[1], a[2], a[3], List(<<>>)).ret = 0

\* C7 witness: instance "a" field "bf" and instance "ab" field "f" were set to
\* different values, and get on instance "ab" field "f" has returned its own.
C7_Witness ==
    /\ bench = "alias"
    /\ DOMAIN written = {<<top, s_a, s_bf>>, <<top, s_ab, s_f>>}
    /\ written[<<top, s_a, s_bf>>] # written[<<top, s_ab, s_f>>]
    /\ last_set.exists
    /\ GetReturned(<<None, s_ab, s_f>>, written[<<top, s_ab, s_f>>])

\* C8: exists(ctx, i, f) returns true exactly when some set to a key matching
\* the resolved instance path and f has been made.
C8_ExistsIffEverSet ==
    /\ \A a \in QueryArgs :
          (ExistsOf(pool, a[1], a[2], a[3]) = 1)
            <=> EverSetMatching(AbsPath(a[1], a[2]), a[3])
    /\ call.op = "exists"
          => ((call.ret = 1)
                <=> EverSetMatching(AbsPath(call.cntxt, call.inst_name),
                                    call.field_name))

\* C8 witness: exists below a component has returned true for a key that was
\* set through a wildcard pattern by another context.
C8_Witness ==
    /\ call.op = "exists" /\ call.ret = 1
    /\ call.cntxt = comp_ab
    /\ \A k \in DOMAIN written : k[1] # comp_ab /\ k[2] # s_a_b

\* C9: when no key ever set matches the lookup, get returns 0, raises nothing
\* and leaves the output argument as it was, list-like or not.
C9_MissLeavesOutputUntouched ==
    /\ \A a \in QueryArgs : \A value \in {List(<<>>), List(<<0>>), NoList} :
          ~EverSetMatching(AbsPath(a[1], a[2]), a[3])
          => GetOf(pool, a[1], a[2], a[3], value)
               = [ret |-> 0, raised |-> FALSE, value |-> value]
    /\ (/\ call.op = "get"
        /\ ~EverSetMatching(AbsPath(call.cntxt, call.inst_name),
                            call.field_name))
       => call.ret = 0 /\ ~call.raised /\ call.after = call.before

\* C9 witness: the instance has been set under another field, and get on a
\* field never set has returned 0 with an output argument that cannot append.
C9_Witness ==
    /\ call.op = "get" /\ call.ret = 0 /\ ~call.raised
    /\ call.before = NoList /\ call.after = NoList
    /\ call.field_name = s_h
    /\ \E k \in DOMAIN written : k[2] = AbsPath(call.cntxt, call.inst_name)

----------------------------------------------------------------------------
\* wait_modified

\* The waiters of task t in the registry.
WaitersOf(t) ==
    { <<f, k>> \in UNION { {f} \X (1..Len(m_waiters[f])) : f \in DOMAIN m_waiters } :
        m_waiters[f][k].task = t }

\* C10: a task blocked in wait_modified(ctx, i, f) has exactly one waiter in
\* the registry and, once a set(ctx, i, f, v) has been made, its trigger is
\* set; a task that is not blocked has no waiter left and has resumed at most
\* once per call, so the registry holds one waiter per blocked task.
C10_WaiterWokenOnceAndRemoved ==
    /\ \A t \in DOMAIN task_pc :
          /\ task_pc[t].at = "waiting" =>
                /\ Cardinality(WaitersOf(t)) = 1
                /\ wait_log[t].resumed = 0
                /\ wait_log[t].hit =>
                      \A w \in WaitersOf(t) : m_waiters[w[1]][w[2]].trigger
          /\ task_pc[t].at = "idle" =>
                /\ WaitersOf(t) = {}
                /\ wait_log[t].resumed <= 1
    /\ RegistrySize = Cardinality({t \in DOMAIN task_pc : task_pc[t].at = "waiting"})

\* C10 witness: task A waited on ("a", "f"), a set to ("a", "f") was made, A has
\* resumed once, and the registry is empty again.
C10_Witness ==
    /\ bench = "wait"
    /\ task_pc["A"].at = "idle"
    /\ wait_log["A"].hit /\ wait_log["A"].resumed = 1
    /\ LastKey = <<top, s_a, s_f>>
    /\ RegistrySize = 0

\* C11: no reachable state has in the registry a waiter whose task is no
\* longer waiting, also when a waiting task is cancelled before any matching
\* set.
C11_NoWaiterOfTaskNotWaiting ==
    \A t \in DOMAIN task_pc : task_pc[t].at # "waiting" => WaitersOf(t) = {}

\* C12: sets to pairwise distinct keys, in whatever order the writing tasks
\* run them, never lose or corrupt one another's resource: every key written
\* has a resource, every resource of that key holds the value last written to
\* the key, and a get of the key that no other stored key matches returns it.
C12_DistinctKeysKeepTheirValues ==
    \A k \in DOMAIN written :
        /\ InPool(pool, k)
        /\ \A j \in 1..Len(pool) : ResId(pool[j]) = k => pool[j].val = written[k]
        /\ \A a \in QueryArgs :
              (/\ <<GetCntxt(a[1]), AbsPath(a[1], a[2]), a[3]>> = k
               /\ Candidates(k[2], k[3]) = {k})
              => GetReturns(a, written[k])

\* C12 witness: three distinct keys were written, the last set re-wrote one of
\* them, two of them hold different values, and a get of a key has returned
\* the value of that key.
C12_Witness ==
    /\ bench = "glob"
    /\ DOMAIN written = {<<top, s_b, s_f>>, <<top, s_a, s_f>>, <<top, s_a, s_g>>}
    /\ written[<<top, s_b, s_f>>] # written[<<top, s_a, s_f>>]
    /\ last_set.exists
    /\ LastKey = <<top, s_a, s_g>>
    /\ GetReturned(<<None, s_b, s_f>>, written[<<top, s_b, s_f>>])

C14_MismatchedSetIsNotStored ==
    (/\ LastSetMade
     /\ last_set.exists
     /\ last_set.T # "None"
     /\ last_set.T # last_set.held)
    => /\ InPool(pool, LastKey)
       /\ TypeOf(Resource(LastKey).val) = last_set.held
       /\ Resource(LastKey).val # last_set.value

\* C15: tracing is observation only. In every reachable state, each set and
\* each get gives the same result with tracing on as with tracing off: the
\* same return value, the same output argument, the same pool, cache and
\* waiter registry; only the trace lines differ. The result a get has
\* returned is the one it gives with tracing off. (exists never consults the
\* tracing option.)
C15_TracingChangesNoResult ==
    LET observed(o) == [o EXCEPT !.msg = <<>>]
        observed_set(o) == [o EXCEPT !.traced.msg = <<>>]
    IN /\ \A a \in SetArgs(bench), v \in SetValues(bench) :
             observed_set(SetOf(TRUE, a[1], a[2], a[3], v))
                = observed_set(SetOf(FALSE, a[1], a[2], a[3], v))
       /\ \A a \in GetArgs(bench) : \A value \in GetValues(bench, a) :
             \A T \in GetTypes(bench) :
                observed(GetTraced(TRUE, pool, a[1], a[2], a[3], value, T))
                   = observed(GetTraced(FALSE, pool, a[1], a[2], a[3], value, T))
       /\ call.op = "get" =>
             LET off == GetTraced(FALSE, pool, call.cntxt, call.inst_name,
                                  call.field_name, call.before, call.T)
             IN /\ call.ret = off.ret /\ call.raised = off.raised
                /\ call.after = off.value
       /\ LastSetMade =>
             /\ InPool(pool, LastKey)
             /\ Resource(LastKey).val = last_set.value

\* C15 witness: with tracing on, a set has emitted its trace line and written
\* its value, and a get has emitted its trace line, returned true and appended
\* that value.
C15_Witness ==
    /\ bench = "trace"
    /\ ready /\ tracing
    /\ LastSetMade /\ last_set.msg # <<>>
    /\ call.op = "get" /\ call.msg # <<>>
    /\ call.ret = 1 /\ call.after = List(<<last_set.value>>)

\* C16: is_tracing returns what the most recent of turn_on_tracing and
\* turn_off_tracing set, true after the one and false after the other; when
\* neither has been called it returns true exactly when the command line
\* holds +UVM_CONFIG_DB_TRACE, so tracing is off by default; the one reading
\* of the command line never overrides an explicit turn_on or turn_off.
C16_IsTracingReflectsLastTurn ==
    LET expected == IF last_turn = "on" THEN TRUE
                    ELSE IF last_turn = "off" THEN FALSE
                    ELSE clp_trace
    IN /\ is_tracing(Options).tracing = expected
       /\ call.op = "is_tracing" => call.ret = expected
       /\ ready => tracing = expected
       /\ ~ready => ~tracing /\ last_turn = "none"

\* C16 witness: the command line asks for tracing, turn_off_tracing was the
\* most recent explicit call, and is_tracing has since returned false.
C16_Witness ==
    /\ clp_trace
    /\ last_turn = "off"
    /\ call.op = "is_tracing" /\ ~call.ret

\* C17: a context holds one resource for each distinct key it has written,
\* however often it has set the key: no two resources in the pool have the
\* same context, instance path and field name, and for every context the
\* number of its resources, and of its cached keys, is the number of distinct
\* keys it has written.
C17_OneEntryPerKey ==
    /\ \A j, k \in 1..Len(pool) : ResId(pool[j]) = ResId(pool[k]) => j = k
    /\ \A c \in Components :
          LET keys == {k \in DOMAIN written : k[1] = c}
          IN /\ Cardinality({j \in 1..Len(pool) : pool[j].cntxt = c})
                  = Cardinality(keys)
             /\ Cardinality(DOMAIN CachePool(c)) = Cardinality(keys)

\* C17 witness: the root context has written two distinct keys, the most
\* recent set wrote a key that it had written before, and the pool holds two
\* resources.
C17_Witness ==
    /\ bench = "glob"
    /\ LastSetMade /\ last_set.exists
    /\ DOMAIN written = {<<top, s_a, s_f>>, <<top, s_b, s_f>>}
    /\ LastKey = <<top, s_a, s_f>>
    /\ Len(pool) = 2

\* The names of the calls and returns in a log, warnings left out.
Steps(log) ==
    LET kept == SelectSeq(log, LAMBDA e : e.ev # "uvm_warning")
    IN [k \in 1..Len(kept) |-> kept[k].ev]

\* C18: for a sequence item, uvm_do and the other macros that run
\* uvm_do_on_pri_with create the item, await start_item, randomize the item
\* and then await finish_item, in that order: randomize_with is never called
\* before start_item has returned, finish_item is never called before
\* randomize_with, and start_item is never called before the item's creation.
C18_ItemLateRandomization ==
    \A t \in SeqTasks :
        LET s == seq[t]
            log == s.log
            before(k, ev) == \E j \in 1..(k - 1) : log[j].ev = ev
        IN (s.fn = "uvm_do_on_pri_with" /\ ~IsSequence(s.obj)) =>
           /\ \A k \in 1..Len(log) :
                 /\ log[k].ev = "randomize_with" =>
                       before(k, "start_item returned")
                 /\ log[k].ev = "finish_item" => before(k, "randomize_with")
                 /\ log[k].ev = "start_item returned" => before(k, "start_item")
                 /\ (log[k].ev = "start_item" /\ get_type(s.obj) # None) =>
                       before(k, "create_item")
           /\ (s.pc = "done" /\ get_type(s.obj) # None) =>
                 Steps(log) = <<"create_item", "start_item",
                                "start_item returned", "randomize_with",
                                "finish_item", "finish_item returned">>

\* C18 witness: uvm_do of the item has run to its end, and
\* uvm_do_on_pri_with of the item has randomized it and awaits finish_item.
C18_Witness ==
    /\ seq["D"].pc = "done" /\ seq["D"].macro = "uvm_do"
    /\ seq["D"].obj = "req"
    /\ seq["W"].pc = "finish_item" /\ seq["W"].macro = "uvm_do_on_pri_with"
    /\ seq["W"].obj = "req"
    /\ \E k \in 1..Len(seq["W"].log) : seq["W"].log[k].ev = "randomize_with"

\* The calls and returns of a log, warnings left out.
CallsOf(log) == SelectSeq(log, LAMBDA e : e.ev # "uvm_warning")

\* The log with the constraint arguments of randomize_with blanked.
NoCons(log) ==
    [k \in 1..Len(log) |->
        IF log[k].ev = "randomize_with" THEN [log[k] EXCEPT !.cons = <<>>]
        ELSE log[k]]

\* C19: uvm_do_with is uvm_do but for the constraints. When uvm_do and
\* uvm_do_with have both run to their end for the same sequence and the same
\* item or sequence, they have made the same calls in the same order, with
\* the same sequencer and priority -1, the constraint arguments apart; and
\* when uvm_do_with was given no constraints, randomize_with received the
\* same constraint arguments from both.
C19_DoWithIsDoButConstraints ==
    LET d == seq["D"]
        w == seq["W"]
    IN (/\ d.pc = "done" /\ d.macro = "uvm_do"
        /\ w.pc = "done" /\ w.macro = "uvm_do_with"
        /\ d.obj = w.obj)
       => /\ NoCons(CallsOf(d.log)) = NoCons(CallsOf(w.log))
          /\ d.sqr = w.sqr
          /\ d.pri = DefaultPriority /\ w.pri = DefaultPriority
          /\ w.cons = <<>> => CallsOf(d.log) = CallsOf(w.log)

\* What uvm_send_pri is to do for SEQ_OR_ITEM o and priority p.
SendExpected(o, p) ==
    IF IsSequence(o)
    THEN <<[ev |-> "start", obj |-> o, sqr |-> get_sequencer(o),
            parent |-> seq_obj, pri |-> p, call_pre_post |-> 0],
           [ev |-> "start returned"]>>
    ELSE <<[ev |-> "start_item", seq |-> seq_obj, obj |-> o, pri |-> p],
           [ev |-> "start_item returned"],
           [ev |-> "finish_item", seq |-> seq_obj, obj |-> o, pri |-> p],
           [ev |-> "finish_item returned"]>>

\* C20: uvm_send and uvm_send_pri neither create nor randomize. For an item
\* they await start_item and then finish_item with the priority given (-1 for
\* uvm_send); for a sequence they await start on the sequence's own
\* sequencer, with the calling sequence as parent, the priority given and
\* call_pre_post = 0. At every moment the calls made are the first of these,
\* all of them once the macro has returned, and randomize_with and
\* create_item are never among them.
C20_SendNeitherCreatesNorRandomizes ==
    \A t \in SeqTasks :
        LET s == seq[t]
            exp == SendExpected(s.obj, s.pri)
        IN s.fn = "uvm_send_pri" =>
           /\ s.macro = "uvm_send" => s.pri = DefaultPriority
           /\ Len(s.log) <= Len(exp)
           /\ s.log = SubSeq(exp, 1, Len(s.log))
           /\ s.pc = "done" => s.log = exp
           /\ s.pc \in {"start", "start_item", "finish_item", "done"}
           /\ \A k \in 1..Len(s.log) :
                 s.log[k].ev \notin {"create_item", "randomize_with",
                                     "uvm_fatal", "uvm_warning"}

\* C20 witness: uvm_send of a sequence and uvm_send_pri of an item with
\* priority 100 have both returned.
C20_Witness ==
    /\ seq["D"].pc = "done" /\ seq["D"].macro = "uvm_send"
    /\ seq["D"].obj = "sub"
    /\ seq["W"].pc = "done" /\ seq["W"].macro = "uvm_send_pri"
    /\ seq["W"].obj = "req" /\ seq["W"].pri # DefaultPriority

\* C21: the resource of every key written has the precedence its most recent
\* set gave it: default_precedence less the depth of the writing context when
\* that set was made in the build phase, default_precedence when it was made
\* in any other phase or before any phase was current.
C21_PrecedenceOfMostRecentSet ==
    \A k \in DOMAIN written :
        /\ InPool(pool, k)
        /\ Resource(k).precedence =
              IF k \in build_written
              THEN default_precedence - get_depth(k[1])
              ELSE default_precedence
        /\ (LastSetMade /\ k = LastKey) => (k \in build_written <=> last_set.build)

\* C21 witness: a context two levels below the root has set a key again after
\* the build phase, its resource has the default precedence, and another key
\* written in the build phase by a context below the root still has less.
C21_Witness ==
    /\ phase = "run"
    /\ LastSetMade /\ last_set.exists /\ ~last_set.build
    /\ get_depth(LastKey[1]) = 2
    /\ Resource(LastKey).precedence = default_precedence
    /\ \E k \in build_written : Resource(k).precedence < default_precedence


\* C22: get, set and exists resolve the absolute instance path alike: a
\* missing context is the root; an empty relative instance gives the full
\* name of the context; a non-empty one gives full name, ".", relative
\* instance when the full name is not empty and the relative instance alone
\* when it is. So the path get and exists search for (ctx, i) is the path a
\* set to (ctx, i) stores under: a key stored by set(ctx, i, f) is found by
\* get(ctx, i, f) and by exists(ctx, i, f).
C22_SamePathInGetSetExists ==
    /\ \A a \in QueryArgs :
          LET cntxt == IF a[1] = None THEN get_root ELSE a[1]
              path == IF a[2] = <<>> THEN get_full_name(cntxt)
                      ELSE IF get_full_name(cntxt) = <<>> THEN a[2]
                      ELSE get_full_name(cntxt) \o <<".">> \o a[2]
          IN /\ SetInstName(SetCntxt(a[1]), a[2]) = path
             /\ GetInstName(GetCntxt(a[1]), a[2]) = path
             /\ ExistsInstName(ExistsCntxt(a[1]), a[2]) = path
             /\ \A k \in DOMAIN written :
                   (k[1] = cntxt /\ k[2] = path /\ k[3] = a[3])
                   => /\ GetOf(pool, a[1], a[2], a[3], List(<<>>)).ret = 1
                      /\ ExistsOf(pool, a[1], a[2], a[3]) = 1
    /\ LastSetMade =>
          /\ InPool(pool, LastKey)
          /\ LastKey[2] = GetInstName(GetCntxt(last_set.cntxt), last_set.inst_name)
          /\ LastKey[2] = ExistsInstName(ExistsCntxt(last_set.cntxt),
                                         last_set.inst_name)

\* C22 witness: component a.b has set its own instance (empty relative
\* instance), component a has set the relative instance "b", the root has set
\* a pattern, and exists for component a.b with the empty relative instance
\* has returned true.
C22_Witness ==
    /\ bench = "hier"
    /\ {<<comp_ab, s_a_b, s_f>>, <<comp_a, s_a_b, s_f>>, <<top, s_a_star, s_f>>}
          \subseteq DOMAIN written
    /\ LastSetMade /\ last_set.cntxt = None
    /\ call.op = "exists" /\ call.cntxt = comp_ab /\ call.inst_name = <<>>
    /\ call.ret = 1

\* C23: every set leaves the resource it wrote at the front of the pool, by
\* exactly one of two steps: a key that had no resource gets a new one put in
\* front of the pool as it was; the resource of a key that had one is moved
\* to the front, the other resources keeping their order and the pool its
\* length.
C23_WrittenEntryAtFront ==
    [][ (pool' # pool \/ last_set' # last_set) =>
           LET k == LastKey'
           IN /\ ResId(pool'[1]) = k
              /\ pool'[1].val = last_set'.value
              /\ IF InPool(pool, k)
                 THEN /\ last_set'.exists
                      /\ Len(pool') = Len(pool)
                      /\ RemoveAt(pool', 1) = RemoveAt(pool, PoolIndex(pool, k))
                 ELSE /\ ~last_set'.exists
                      /\ Tail(pool') = pool ]_vars

\* C23 witness: the pool holds three resources, the most recent set wrote to
\* a key that had a resource already, with a lower precedence than the two
\* others have, and that resource is at the front.
C23_Witness ==
    /\ Len(pool) = 3
    /\ LastSetMade /\ last_set.exists /\ last_set.build
    /\ ResId(pool[1]) = LastKey
    /\ pool[1].precedence < pool[2].precedence
    /\ pool[1].precedence < pool[3].precedence

\* C24: a set to path p and field f sets the trigger of exactly the waiters
\* in the queue of f whose registered instance string the glob p matches;
\* the triggers of the other waiters of that queue and of all waiters of the
\* other queues stay as they were, and set removes, adds and moves no waiter.
\* (A step that changes the registry, the pool or the record of the last set
\* and no task's position is a set.)
C24_SetTriggersExactlyMatchingWaiters ==
    [][ (/\ task_pc' = task_pc
         /\ LastSetMade'
         /\ (m_waiters' # m_waiters \/ pool' # pool \/ last_set' # last_set)) =>
           /\ DOMAIN m_waiters' = DOMAIN m_waiters
           /\ RegistrySize' = RegistrySize
           /\ \A f \in DOMAIN m_waiters :
                 /\ Len(m_waiters'[f]) = Len(m_waiters[f])
                 /\ \A k \in 1..Len(m_waiters[f]) :
                       LET w == m_waiters[f][k]
                           hit == /\ f = last_set'.field_name
                                  /\ GlobMatch(LastKey'[2], w.inst_name)
                       IN m_waiters'[f][k] =
                             [w EXCEPT !.trigger = w.trigger \/ hit] ]_vars

\* C24 witness: tasks A and B wait on field "f", A for instance "a" and B for
\* instance "a.b"; the most recent set wrote ("a.*", "f"); B's waiter is
\* triggered, A's is not, and both are still registered.
C24_Witness ==
    /\ bench = "wait"
    /\ task_pc["A"].at = "waiting" /\ task_pc["B"].at = "waiting"
    /\ LastSetMade /\ LastKey = <<top, s_a_star, s_f>>
    /\ RegistrySize = 2
    /\ \E j, k \in 1..Len(m_waiters[s_f]) :
          /\ m_waiters[s_f][j].task = "A" /\ m_waiters[s_f][j].inst_name = s_a
          /\ ~m_waiters[s_f][j].trigger
          /\ m_waiters[s_f][k].task = "B" /\ m_waiters[s_f][k].inst_name = s_a_b
          /\ m_waiters[s_f][k].trigger

\* The places in the pool of the resources that match the concrete inst_name
\* and field_name and hold a value of type T (of any type when T is None).
CandidatesOfType(inst_name, field_name, T) ==
    { j \in 1..Len(pool) :
        /\ Matches(ResId(pool[j]), inst_name, field_name)
        /\ (T = "None" \/ TypeOf(pool[j].val) = T) }

\* C25: the resource get selects is, among the stored resources that match
\* the lookup and hold a value of the requested type, one of the greatest
\* precedence and, among those of the greatest precedence, the one nearest
\* the front of the pool; a resource of lower precedence is never returned
\* while such a resource of higher precedence is stored, however recently the
\* lower one was written. With no such resource get returns 0.
C25_GetSelectsHighestPrecedenceFrontMost ==
    \A a \in GetArgs(bench), T \in GetTypes(bench) :
        LET cands == CandidatesOfType(AbsPath(a[1], a[2]), a[3], T)
            res == GetOfType(pool, a[1], a[2], a[3], List(<<>>), T)
            called == /\ call.op = "get"
                      /\ <<call.cntxt, call.inst_name, call.field_name>> = a
                      /\ call.T = T
                      /\ call.before.has_append
        IN IF cands = {}
           THEN res.ret = 0 /\ (called => call.ret = 0)
           ELSE \E j \in cands :
                   /\ \A k \in cands : pool[k].precedence <= pool[j].precedence
                   /\ \A k \in cands :
                         k < j => pool[k].precedence < pool[j].precedence
                   /\ res.ret = 1 /\ res.value = List(<<pool[j].val>>)
                   /\ called =>
                         /\ call.ret = 1
                         /\ call.after.items
                              = Append(call.before.items, pool[j].val)

\* C25 witness: two resources match the path "a"; the one at the front, the
\* more recently written, holds a string and has the lower precedence; a get
\* that asked for no type has returned the value of the other one, and a get
\* that asks for a string returns the string.
C25_Witness ==
    /\ bench = "typed"
    /\ Len(pool) = 2
    /\ pool[1].precedence < pool[2].precedence
    /\ TypeOf(pool[1].val) = "str" /\ TypeOf(pool[2].val) = "int"
    /\ call.op = "get" /\ call.T = "None" /\ call.ret = 1
    /\ call.after = List(<<pool[2].val>>)
    /\ GetOfType(pool, call.cntxt, call.inst_name, call.field_name,
                 List(<<>>), "str").value = List(<<pool[1].val>>)

\* A whole-string match, said without the matcher, for the patterns the
\* benches store: a pattern with no wildcard matches the equal string only; a
\* pattern that ends in its only "*" matches the strings that begin with
\* what stands before the "*".
IsLiteral(pat) == \A k \in 1..Len(pat) : pat[k] \notin {"*", "?"}

WholeMatch(pat, str) ==
    IF IsLiteral(pat) THEN str = pat
    ELSE LET prefix == SubSeq(pat, 1, Len(pat) - 1)
         IN /\ Len(str) >= Len(prefix)
            /\ SubSeq(str, 1, Len(prefix)) = prefix

\* C26: the candidate list of get holds every stored resource whose instance
\* pattern matches the whole of the concrete instance path and whose field
\* pattern matches the whole of the concrete field name, each once and in
\* pool order, and no other resource: a pattern that matches only a part of
\* the string does not count. get returns 0 exactly when the list is empty.
C26_CandidatesAreWholeMatches ==
    /\ \A j \in 1..Len(pool) :
          /\ pool[j].scope # <<>> /\ pool[j].name # <<>>
          /\ \A pat \in {pool[j].scope, pool[j].name} :
                IsLiteral(pat)
                \/ (pat[Len(pat)] = "*" /\ IsLiteral(SubSeq(pat, 1, Len(pat) - 1)))
    /\ \A a \in QueryArgs :
          LET inst_name == AbsPath(a[1], a[2])
              rq == lookup_regex_names(pool, inst_name, a[3])
              whole == SelectSeq(pool, LAMBDA r : /\ WholeMatch(r.scope, inst_name)
                                                  /\ WholeMatch(r.name, a[3]))
          IN /\ rq = whole
             /\ (GetOf(pool, a[1], a[2], a[3], List(<<>>)).ret = 0) <=> (whole = <<>>)
             /\ \A T \in GetTypes(bench) :
                   LET res == GetOfType(pool, a[1], a[2], a[3], List(<<>>), T)
                   IN res.ret = 1 =>
                         \E k \in 1..Len(whole) : res.value = List(<<whole[k].val>>)

\* C26 witness: resources are stored under the instance patterns "b", "a"
\* and "a.*"; the candidate list for the path "a.b" holds only the resource
\* of "a.*", though "a" and "b" are parts of the path, and get on "a.b" has
\* returned its value, which is not the value stored under "a".
C26_Witness ==
    /\ bench = "glob"
    /\ Len(pool) = 3
    /\ {pool[j].scope : j \in 1..3} = {s_b, s_a, s_a_star}
    /\ LET rq == lookup_regex_names(pool, s_a_b, s_f)
       IN /\ Len(rq) = 1 /\ rq[1].scope = s_a_star
          /\ call.op = "get" /\ call.inst_name = s_a_b /\ call.ret = 1
          /\ call.after = List(<<rq[1].val>>)
          /\ \E j \in 1..3 : pool[j].scope = s_a /\ pool[j].val # rq[1].val

\* C27: exists only reads: the step of an exists call leaves the pool (every
\* resource's value and precedence, and the order), the caches and the
\* waiter registry as they were, so every get returns after the call what it
\* returned before it.
C27_ExistsChangesNothing ==
    [][ call'.op = "exists" =>
           /\ pool' = pool
           /\ m_rsc' = m_rsc
           /\ m_waiters' = m_waiters
           /\ \A a \in GetArgs(bench), T \in GetTypes(bench) :
                 \A value \in GetValues(bench, a) :
                    GetTraced(FALSE, pool', a[1], a[2], a[3], value, T)
                       = GetTraced(FALSE, pool, a[1], a[2], a[3], value, T) ]_vars

\* C27 witness: exists has returned true for a path that several resources
\* match; the one of the greatest precedence, which the lookup finds, is not
\* at the front of the pool.
C27_Witness ==
    /\ bench = "hier"
    /\ call.op = "exists" /\ call.ret = 1
    /\ Len(pool) = 3
    /\ LET rs == get_by_name(pool, AbsPath(call.cntxt, call.inst_name),
                             call.field_name)
       IN /\ rs # <<>>
          /\ ResId(rs[1]) # ResId(pool[1])
          /\ rs[1].precedence > pool[1].precedence

C29_NoMissedWakeup ==
    /\ [](\A t \in WakeTasks :
            (task_pc[t].at = "waiting" /\ wait_log[t].matched)
            => /\ Cardinality(WaitersOf(t)) = 1
               /\ \A w \in WaitersOf(t) : m_waiters[w[1]][w[2]].trigger)
    /\ \A t \in WakeTasks :
          (task_pc[t].at = "waiting" /\ wait_log[t].matched)
             ~> (task_pc[t].at = "idle")

\* C29 witness: task B registered for instance "a.b", the set to the pattern
\* "a.*" came after, B has resumed, and its waiter is gone; task A, which
\* waits for instance "a", no set has matched and it still waits.
C29_Witness ==
    /\ bench = "wait"
    /\ task_pc["B"].at = "idle"
    /\ wait_log["B"].matched /\ ~wait_log["B"].hit
    /\ wait_log["B"].inst_name = s_a_b
    /\ wait_log["B"].resumed = 1
    /\ WaitersOf("B") = {}
    /\ task_pc["A"].at = "waiting" /\ ~wait_log["A"].matched
    /\ LastSetMade /\ LastKey = <<top, s_a_star, s_f>>

\* C30: uvm_create_on, called through uvm_create or through the uvm_do
\* macros, begins with one create_item call on seq_obj, with the factory type
\* of the object and the sequencer it was given, when the type of the object
\* is registered; when it is not (get_type() is None) it reports the fatal
\* "uvm_create_on", never calls create_item and, when the report lets it
\* return, returns None. uvm_create returns what uvm_create_on returns.
C30_CreateOnCreatesOrReportsFatal ==
    \A t \in SeqTasks :
        LET s == seq[t]
            fatal == [ev |-> "uvm_fatal", id |-> "uvm_create_on"]
            created == [ev |-> "create_item", seq |-> seq_obj,
                        type |-> get_type(s.obj), sqr |-> s.sqr,
                        name |-> "SEQ_OR_ITEM"]
        IN (s.pc # "idle" /\ s.fn \in {"uvm_create_on", "uvm_do_on_pri_with"}) =>
           /\ s.log # <<>>
           /\ IF get_type(s.obj) = None
              THEN /\ s.log[1] = fatal
                   /\ \A k \in 1..Len(s.log) : s.log[k].ev # "create_item"
                   /\ s.pc = "fatal" => s.log = <<fatal>>
                   /\ s.macro = "uvm_create" =>
                         /\ s.pc \in {"fatal", "done"}
                         /\ s.pc = "done" =>
                               s.log = <<fatal, [ev |-> "return", value |-> None]>>
              ELSE /\ s.log[1] = created
                   /\ \A k \in 2..Len(s.log) :
                         s.log[k].ev \notin {"create_item", "uvm_fatal"}
                   /\ s.macro = "uvm_create" =>
                         /\ s.pc = "done"
                         /\ s.log = <<created, [ev |-> "return",
                                                value |-> get_type(s.obj)]>>
           /\ s.macro = "uvm_create" => s.fn = "uvm_create_on"

\* C30 witness: uvm_create of the object with no registered type has reported
\* the fatal and returned None, and uvm_do_on_pri_with of the item has created
\* it on a sequencer that is not the sequence's own.
C30_Witness ==
    /\ seq["D"].macro = "uvm_create" /\ seq["D"].obj = "anon"
    /\ seq["D"].pc = "done"
    /\ seq["D"].log[Len(seq["D"].log)] = [ev |-> "return", value |-> None]
    /\ seq["W"].macro = "uvm_do_on_pri_with" /\ seq["W"].obj = "req"
    /\ seq["W"].sqr # m_sequencer(seq_obj)
    /\ seq["W"].log[1].ev = "create_item" /\ seq["W"].log[1].sqr = seq["W"].sqr

KeysOfPath(inst_name, field_name) ==
    { k \in DOMAIN written : k[2] = inst_name /\ k[3] = field_name }

\* C32: when several contexts have written the same instance path and field,
\* all of them outside the build phase, each has its own resource and its own
\* cache entry, and get on that path and field returns the value of the most
\* recent of these sets, whether it created its resource or updated one that
\* it had created earlier.
C32_RuntimeRecencyAcrossContexts ==
    (LastSetMade /\ ~last_set.build) =>
        LET keys == KeysOfPath(LastKey[2], LastKey[3])
        IN (Cardinality(keys) >= 2 /\ keys \cap build_written = {}) =>
           /\ \A k \in keys :
                 /\ InPool(pool, k)
                 /\ LookupKey(k[2], k[3]) \in DOMAIN CachePool(k[1])
           /\ Cardinality({j \in 1..Len(pool) : ResId(pool[j]) \in keys})
                 = Cardinality(keys)
           /\ \A a \in QueryArgs :
                 (AbsPath(a[1], a[2]) = LastKey[2] /\ a[3] = LastKey[3]) =>
                    /\ GetReturns(a, last_set.value)
                    /\ (/\ call.op = "get"
                        /\ <<call.cntxt, call.inst_name, call.field_name>> = a
                        /\ call.T \in {"None", TypeOf(last_set.value)}
                        /\ call.before.has_append)
                       => call.after.items
                             = Append(call.before.items, last_set.value)

\* C32 witness: after the build phase components a and a.b have both written
\* the path "a.b"; the most recent set, by component a, updated the resource
\* it had, the resource of a.b holds another value, and get has returned the
\* value of the most recent set.
C32_Witness ==
    /\ bench = "hier" /\ phase = "run"
    /\ LastSetMade /\ last_set.exists /\ ~last_set.build
    /\ LastKey = <<comp_a, s_a_b, s_f>>
    /\ KeysOfPath(s_a_b, s_f) = {<<comp_a, s_a_b, s_f>>, <<comp_ab, s_a_b, s_f>>}
    /\ build_written = {}
    /\ written[<<comp_ab, s_a_b, s_f>>] # last_set.value
    /\ GetReturned(<<None, s_a_b, s_f>>, last_set.value)

\* C33: no resource made by set has a precedence above default_precedence
\* (the depth of a context is never negative), none has one below
\* default_precedence less the depth of the context that wrote it, and a
\* resource whose most recent write was made outside the build phase has
\* exactly default_precedence.
C33_PrecedenceAtMostDefault ==
    /\ \A c \in Components : get_depth(c) >= 0
    /\ \A j \in 1..Len(pool) :
          /\ pool[j].precedence <= default_precedence
          /\ pool[j].precedence >= default_precedence - get_depth(pool[j].cntxt)
          /\ ResId(pool[j]) \in DOMAIN written
          /\ ResId(pool[j]) \notin build_written
                => pool[j].precedence = default_precedence

\* C33 witness: after the build phase the pool holds a resource that
\* component a.b wrote in the build phase, below default_precedence, and one
\* that component a, which had written it in the build phase, has written
\* again since, at default_precedence.
C33_Witness ==
    /\ phase = "run"
    /\ LastSetMade /\ last_set.exists /\ ~last_set.build
    /\ get_depth(LastKey[1]) = 1
    /\ Resource(LastKey).precedence = default_precedence
    /\ \E j \in 1..Len(pool) :
          /\ pool[j].cntxt = comp_ab
          /\ ResId(pool[j]) \in build_written
          /\ pool[j].precedence = default_precedence - 2

\* C34: get raises its exception exactly when a stored resource matches the
\* lookup and the output argument has no append; when no resource matches it
\* returns 0, raises nothing and leaves the output argument alone, whatever
\* that argument is; a get that raised left the output argument as it was;
\* and no get, raising or not, changes the pool, the caches or the registry.
C34_GetRaisesOnlyOnHitWithoutAppend ==
    /\ [](/\ \A a \in GetArgs(bench) : \A value \in GetValues(bench, a) :
                LET res == GetOf(pool, a[1], a[2], a[3], value)
                    found == Candidates(AbsPath(a[1], a[2]), a[3]) # {}
                IN /\ res.raised <=> (found /\ ~value.has_append)
                   /\ ~found => res = [ret |-> 0, raised |-> FALSE,
                                       value |-> value]
                   /\ res.raised => res.value = value
          /\ (call.op = "get" /\ call.raised) =>
                /\ ~call.before.has_append
                /\ Candidates(AbsPath(call.cntxt, call.inst_name),
                              call.field_name) # {}
                /\ call.after = call.before)
    /\ [][ call'.op = "get" =>
              /\ pool' = pool
              /\ m_rsc' = m_rsc
              /\ m_waiters' = m_waiters ]_vars

\* C34 witness: with three resources stored, a get of a stored key with an
\* output argument that cannot append has raised; the same get with a list
\* returns the value, and a get of a field never set, with the argument that
\* cannot append, returns 0 without raising.
C34_Witness ==
    /\ bench = "glob"
    /\ Len(pool) = 3
    /\ call.op = "get" /\ call.raised /\ call.before = NoList
    /\ call.field_name = s_f
    /\ GetOf(pool, call.cntxt, call.inst_name, call.field_name, List(<<>>)).ret = 1
    /\ GetOf(pool, None, s_a, s_h, NoList)
          = [ret |-> 0, raised |-> FALSE, value |-> NoList]

\* C35: set signals only waiters of the queue registered under the very
\* string it was given as field name. A set whose field name is another string
\* leaves a field's queue exactly as it was, also when that field name is a
\* pattern that matches the field: once ("a", "*") has been set, a get of
\* ("a", "f") finds a resource, yet the set of ("a", "*") signals no waiter
\* registered under "f"; the waiters it signals are registered under "*".
C35_WaiterBucketByExactFieldName ==
    /\ [][ (/\ task_pc' = task_pc
            /\ LastSetMade'
            /\ (m_waiters' # m_waiters \/ pool' # pool \/ last_set' # last_set)) =>
              /\ DOMAIN m_waiters' = DOMAIN m_waiters
              /\ \A f \in DOMAIN m_waiters :
                    /\ f # last_set'.field_name => m_waiters'[f] = m_waiters[f]
                    /\ (/\ last_set'.field_name = s_star
                        /\ f = s_f
                        /\ GlobMatch(last_set'.field_name, f)) =>
                          \A k \in 1..Len(m_waiters[f]) :
                             m_waiters'[f][k].trigger = m_waiters[f][k].trigger ]_vars
    /\ [](\A j \in 1..Len(pool) :
             pool[j].name = s_star /\ pool[j].scope = s_a =>
                /\ GlobMatch(pool[j].name, s_f)
                /\ GetOf(pool, None, s_a, s_f, List(<<>>)).ret = 1)
    /\ [](\A f \in DOMAIN m_waiters : \A k \in 1..Len(m_waiters[f]) :
             m_waiters[f][k].trigger =>
                /\ LastSetMade
                /\ \E key \in DOMAIN written : key[3] = f)

\* C35 witness: task A waits for ("a", "f") and task B for ("a", "*"); the
\* most recent set wrote ("a", "*") and no set has written field "f"; B's
\* waiter is triggered, A's is not, and a get of ("a", "f") returned the value
\* that set wrote.
C35_Witness ==
    /\ bench = "field"
    /\ task_pc["A"].at = "waiting" /\ task_pc["B"].at = "waiting"
    /\ LastSetMade /\ LastKey = <<top, s_a, s_star>>
    /\ \A key \in DOMAIN written : key[3] = s_star
    /\ s_f \in DOMAIN m_waiters /\ s_star \in DOMAIN m_waiters
    /\ Len(m_waiters[s_f]) = 1 /\ Len(m_waiters[s_star]) = 1
    /\ m_waiters[s_f][1].task = "A" /\ m_waiters[s_f][1].inst_name = s_a
    /\ ~m_waiters[s_f][1].trigger
    /\ m_waiters[s_star][1].task = "B" /\ m_waiters[s_star][1].trigger
    /\ GetReturned(<<None, s_a, s_f>>, last_set.value)
====
